---- MODULE Spec2Model ----
(***************************************************************************)
(* A model of the mlog emulator: values, the variable store, the          *)
(* instruction parser and executor, the buildings and the virtual         *)
(* machine's cycle and run loop (src/emulator/src, src/src/variable.rs).  *)
(*                                                                         *)
(* Numbers: an f64 is modelled as [cls, n].  cls = "fin" is the finite     *)
(* value n/2 (n counts halves, so 1.5 is representable and an integer is   *)
(* an even n); cls = "inf" is the infinity of sign n; cls = "nan" is NaN;  *)
(* cls = "sym" is one of the irrational built-in constants.                *)
(* Text: a string is a sequence of characters, each a code point.          *)
(* Handles are 0-based indices as in the code; slot h is variables[h+1].   *)
(***************************************************************************)
EXTENDS Integers, Sequences, FiniteSets, TLC

VARIABLES
  options,       \* the Options given: code (lines), code_len_limit
  new_result,    \* the result of VM::new: NoErr, or the error / panic
  variables,     \* Variables.variables: the slots, in insertion order
  by_name,       \* Variables.by_name: name -> slot index (0-based)
  utf_16,        \* the OnceCell of every LazyUtf16String object, by identity
  code,          \* VM.code
  print_buffer,  \* VM.print_buffer
  buildings,     \* VM.buildings: the declared devices and their contents
  run,           \* the activation of VM::run: its arguments, loop and result
  runs,          \* number of calls of VM::run made so far
  last,          \* history: what the last call of VM::cycle did
  printed,       \* history: outputs of print/printchar since the last take
  written,       \* history: last value a write instruction stored per cell
  flushed,       \* history: the prints the last printflush put on a display
  variables0,    \* history: the store as VM::new returned it
  lex            \* the activation of Instruction::split_line on one line

vars == <<options, new_result, variables, by_name, utf_16, code, print_buffer,
          buildings, run, runs, last, printed, written, flushed,
          variables0, lex>>

-----------------------------------------------------------------------------
(* Bounds of the model *)

MaxCodeLen == 2

MaxLimit == 3

MaxRuns == 2

(* Program constants *)

DEFAULT_CODE_LEN_LIMIT == 1000

MemCapacity == 2

MaxLineLen == 4

-----------------------------------------------------------------------------
(* Values (value.rs) *)

F(n) == [cls |-> "fin", n |-> n]

Inf(sign) == [cls |-> "inf", n |-> sign]

NaN == [cls |-> "nan", n |-> 0]

Sym(k) == [cls |-> "sym", n |-> k]

Null == [tag |-> "Null"]

Num(f) == [tag |-> "Num", f |-> f]

NumI(k) == Num(F(2 * k))

NumHalf(k) == Num(F(2 * k + 1))

Str(ref, s) == [tag |-> "Str", ref |-> ref, s |-> s]

Building(name) == [tag |-> "Building", name |-> name]

Property(name) == [tag |-> "Property", name |-> name]

PROPERTIES == <<"memoryCapacity", "size">>

PropertyVarName(p) == IF p = "memoryCapacity" THEN "@memoryCapacity" ELSE "@size"

type_name(v) ==
  CASE v.tag = "Null" -> "null"
    [] v.tag = "Num" -> "num"
    [] v.tag = "Str" -> "str"
    [] v.tag = "Building" -> "Building"
    [] v.tag = "Property" -> "Property"

(* The spelling of every identifier the model's programs and store use. *)
Spelling ==
  "@counter" :> <<64, 99, 111, 117, 110, 116, 101, 114>> @@
  "@this" :> <<64, 116, 104, 105, 115>> @@
  "@thisx" :> <<64, 116, 104, 105, 115, 120>> @@
  "@thisy" :> <<64, 116, 104, 105, 115, 121>> @@
  "@ipt" :> <<64, 105, 112, 116>> @@
  "@timescale" :> <<64, 116, 105, 109, 101, 115, 99, 97, 108, 101>> @@
  "@links" :> <<64, 108, 105, 110, 107, 115>> @@
  "@unit" :> <<64, 117, 110, 105, 116>> @@
  "@time" :> <<64, 116, 105, 109, 101>> @@
  "@tick" :> <<64, 116, 105, 99, 107>> @@
  "@second" :> <<64, 115, 101, 99, 111, 110, 100>> @@
  "@minute" :> <<64, 109, 105, 110, 117, 116, 101>> @@
  "@waveNumber" :> <<64, 119, 97, 118, 101, 78, 117, 109, 98, 101, 114>> @@
  "@waveTime" :> <<64, 119, 97, 118, 101, 84, 105, 109, 101>> @@
  "@mapw" :> <<64, 109, 97, 112, 119>> @@
  "@maph" :> <<64, 109, 97, 112, 104>> @@
  "null" :> <<110, 117, 108, 108>> @@
  "true" :> <<116, 114, 117, 101>> @@
  "false" :> <<102, 97, 108, 115, 101>> @@
  "@pi" :> <<64, 112, 105>> @@
  "@e" :> <<64, 101>> @@
  "@degToRad" :> <<64, 100, 101, 103, 84, 111, 82, 97, 100>> @@
  "@radToDeg" :> <<64, 114, 97, 100, 84, 111, 68, 101, 103>> @@
  "blockCount" :> <<98, 108, 111, 99, 107, 67, 111, 117, 110, 116>> @@
  "unitCount" :> <<117, 110, 105, 116, 67, 111, 117, 110, 116>> @@
  "itemCount" :> <<105, 116, 101, 109, 67, 111, 117, 110, 116>> @@
  "liquidCount" :> <<108, 105, 113, 117, 105, 100, 67, 111, 117, 110, 116>> @@
  "@memoryCapacity" :> <<64, 109, 101, 109, 111, 114, 121, 67, 97, 112, 97, 99, 105, 116, 121>> @@
  "@size" :> <<64, 115, 105, 122, 101>> @@
  "memoryCapacity" :> <<109, 101, 109, 111, 114, 121, 67, 97, 112, 97, 99, 105, 116, 121>> @@
  "size" :> <<115, 105, 122, 101>> @@
  "m1" :> <<109, 49>> @@
  "c1" :> <<99, 49>> @@
  "q" :> <<113>> @@
  "x" :> <<120>> @@
  "y" :> <<121>> @@
  "v" :> <<118>> @@
  "i" :> <<105>> @@
  "_" :> <<95>> @@
  "zz" :> <<122, 122>>

RECURSIVE Digits(_)
Digits(n) == IF n < 10 THEN <<48 + n>> ELSE Digits(n \div 10) \o <<48 + (n % 10)>>

(* Display for f64: "1", "-3", "1.5", "inf", "-inf", "NaN". *)
NumText(f) ==
  CASE f.cls = "fin" ->
         LET a == IF f.n < 0 THEN -f.n ELSE f.n
         IN  (IF f.n < 0 THEN <<45>> ELSE <<>>) \o Digits(a \div 2)
             \o (IF a % 2 = 1 THEN <<46, 53>> ELSE <<>>)
    [] f.cls = "inf" -> (IF f.n < 0 THEN <<45>> ELSE <<>>) \o <<105, 110, 102>>
    [] f.cls = "nan" -> <<78, 97, 78>>
    [] f.cls = "sym" ->
         CASE f.n = 1 -> <<51, 46, 49, 52, 49, 53, 57, 50, 54, 53, 51, 53, 56, 57, 55, 57, 51>>
           [] f.n = 2 -> <<50, 46, 55, 49, 56, 50, 56, 49, 56, 50, 56, 52, 53, 57, 48, 52, 53>>
           [] f.n = 3 -> <<48, 46, 48, 49, 55, 52, 53, 51, 50, 57, 50, 53, 49, 57, 57, 52, 51, 50, 57, 53>>
           [] OTHER -> <<53, 55, 46, 50, 57, 53, 55, 55, 57, 53, 49, 51, 48, 56, 50, 51, 50>>

(* impl Display for Value *)
to_string(v) ==
  CASE v.tag = "Null" -> <<110, 117, 108, 108>>
    [] v.tag = "Num" -> NumText(v.f)
    [] v.tag = "Str" -> v.s
    [] v.tag = "Building" -> Spelling[v.name]
    [] v.tag = "Property" -> <<64>> \o Spelling[v.name]

-----------------------------------------------------------------------------
(* Errors (vm.rs: VmError) and results *)

NoErr == [kind |-> "Ok"]

InvalidCast(v, to) ==
  [kind |-> "InvalidCast", value |-> to_string(v), from |-> type_name(v), to |-> to]

InvalidBuildingType(action, name) ==
  [kind |-> "InvalidBuildingType", action |-> action, name |-> name]

VariableNotFound(text) == [kind |-> "VariableNotFound", text |-> text]

ConstantMutation(name) == [kind |-> "ConstantMutation", name |-> name]

EmptyCode == [kind |-> "EmptyCode"]

CodeTooLong(len, limit) == [kind |-> "CodeTooLong", len |-> len, limit |-> limit]

InvalidCharacter(ch) == [kind |-> "InvalidCharacter", ch |-> ch]

NegativeIndex(idx, device) == [kind |-> "NegativeIndex", idx |-> idx, device |-> device]

IndexTooHigh(idx, limit, device) ==
  [kind |-> "IndexTooHigh", idx |-> idx, limit |-> limit, device |-> device]

PcResError(inner) == [kind |-> "PcResError", inner |-> inner]

InvalidFormat(msg) == [kind |-> "InvalidFormat", msg |-> msg]

InvalidOperation(op) == [kind |-> "InvalidOperation", op |-> op]

DivisionByZero == [kind |-> "DivisionByZero"]

Panic(msg) == [kind |-> "panic", msg |-> msg]

Ok(v) == [err |-> NoErr, v |-> v]

Fail(e) == [err |-> e, v |-> 0]

IsOk(r) == r.err.kind = "Ok"

(* let v = e; body(v) *)
Let(e, Body(_)) == Body(e)

(* The ? operator: the error of r, or the rest of the computation on its value *)
Try(r, Rest(_)) == IF IsOk(r) THEN Rest(r.v) ELSE r

-----------------------------------------------------------------------------
(* Coercions (value.rs: impl Value) *)

as_num(v) == IF v.tag = "Num" THEN Ok(v.f) ELSE Fail(InvalidCast(v, "num"))

(* Variant: a fraction is truncated instead of refused *)
as_int_Truncating(v) ==
  Try(as_num(v), LAMBDA num :
    IF num.cls = "fin" THEN Ok(num.n \div 2)
    ELSE Fail(InvalidCast(v, "int")))

(* (num.round() - num).abs() < EPSILON holds exactly for the finite integers *)
as_int(v) ==
  Try(as_num(v), LAMBDA num :
    IF num.cls = "fin" /\ num.n % 2 = 0 THEN Ok(num.n \div 2)
    ELSE Fail(InvalidCast(v, "int")))

(* Variant: a negative index counts from the end *)
as_index_FromEnd(v, len, device) ==
  Try(as_int(v), LAMBDA val :
    IF val < 0 /\ len + val >= 0 THEN Ok(len + val)
    ELSE IF val < 0 THEN Fail(NegativeIndex(val, device))
    ELSE IF val >= len THEN Fail(IndexTooHigh(val, len, device))
    ELSE Ok(val))

(* Value::as_index *)
as_index(v, len, device) ==
  Try(as_int(v), LAMBDA val :
    IF val < 0 THEN Fail(NegativeIndex(val, device))
    ELSE IF val >= len THEN Fail(IndexTooHigh(val, len, device))
    ELSE Ok(val))

(* data[self.as_index(data.len(), device)?], data 0-based *)
do_index(v, data, device) ==
  Try(as_index(v, Len(data), device), LAMBDA idx : Ok(data[idx + 1]))

as_str(v) == IF v.tag = "Str" THEN Ok(v) ELSE Fail(InvalidCast(v, "str"))

as_building(v) == IF v.tag = "Building" THEN Ok(v.name) ELSE Fail(InvalidCast(v, "Building"))

as_property(v) == IF v.tag = "Property" THEN Ok(v.name) ELSE Fail(InvalidCast(v, "Property"))

(* String::encode_utf16: one unit for a BMP character, a surrogate pair above *)
RECURSIVE encode_utf16(_)
encode_utf16(s) ==
  IF s = <<>> THEN <<>>
  ELSE LET c == Head(s)
       IN  (IF c < 65536 THEN <<c>>
            ELSE <<55296 + ((c - 65536) \div 1024), 56320 + ((c - 65536) % 1024)>>)
           \o encode_utf16(Tail(s))

(* The OnceCell of a LazyUtf16String: empty, or holding the code units *)
Uninit == [init |-> FALSE, units |-> <<>>]

(* Variant: the code units are computed on every call and not kept *)
as_utf_16_Uncached(cells, str) == [cells |-> cells, units |-> encode_utf16(str.s)]

(* LazyUtf16String::as_utf_16: get_or_init; returns the cells and the slice *)
as_utf_16(cells, str) ==
  IF cells[str.ref].init THEN [cells |-> cells, units |-> cells[str.ref].units]
  ELSE Let(encode_utf16(str.s), LAMBDA u :
         [cells |-> [cells EXCEPT ![str.ref] = [init |-> TRUE, units |-> u]],
          units |-> u])

(* f64 == *)
F64Eq(a, b) ==
  /\ a.cls # "nan"
  /\ b.cls # "nan"
  /\ a = b

(* Variant: null is compared as the number 0 *)
ValueEq_Coercing(cells, a, b) ==
  \/ a.tag = "Null" /\ b = NumI(0)
  \/ b.tag = "Null" /\ a = NumI(0)
  \/ /\ a.tag = b.tag
     /\ CASE a.tag = "Null" -> TRUE
          [] a.tag = "Num" -> F64Eq(a.f, b.f)
          [] a.tag = "Str" -> a.s = b.s /\ cells[a.ref] = cells[b.ref]
          [] a.tag = "Building" -> a.name = b.name
          [] a.tag = "Property" -> a.name = b.name

(* #[derive(PartialEq)] on Value and on LazyUtf16String {string, utf_16};
   dyn Building compares names *)
ValueEq(cells, a, b) ==
  /\ a.tag = b.tag
  /\ CASE a.tag = "Null" -> TRUE
       [] a.tag = "Num" -> F64Eq(a.f, b.f)
       [] a.tag = "Str" -> a.s = b.s /\ cells[a.ref] = cells[b.ref]
       [] a.tag = "Building" -> a.name = b.name
       [] a.tag = "Property" -> a.name = b.name

-----------------------------------------------------------------------------
(* The variable store (variable.rs) *)

None == -1

Variable_new_const(name, value, constant) ==
  [name |-> name, value |-> value, constant |-> constant]

(* Variant: the constant flag is not looked at *)
set_val_Unchecked(var, value) == Ok([var EXCEPT !.value = value])

(* Variable::set_val *)
set_val(var, value) ==
  IF var.constant THEN Fail(ConstantMutation(var.name))
  ELSE Ok([var EXCEPT !.value = value])

(* Variable::force_set_val *)
force_set_val(var, value) == [var EXCEPT !.value = value]

(* VarHandle::val *)
HandleVal(vs, h) == vs[h + 1].value

(* VarHandle::set: the slots after the write, or the error *)
HandleSet(vs, h, value) ==
  Try(set_val(vs[h + 1], value), LAMBDA var : Ok([vs EXCEPT ![h + 1] = var]))

(* VarHandle::force_set *)
HandleForceSet(vs, h, value) == [vs EXCEPT ![h + 1] = force_set_val(vs[h + 1], value)]

(* Variables::get_handle by an identifier *)
get_handle(bn, name) == IF name \in DOMAIN bn THEN bn[name] ELSE None

(* Variables::get_handle by the text of a string value *)
get_handle_text(bn, text) ==
  LET hit == {n \in DOMAIN bn : Spelling[n] = text}
  IN  IF hit = {} THEN None ELSE bn[CHOOSE n \in hit : TRUE]

(* Variables::handle: the existing handle, or a new mutable Null slot *)
handle(V, name) ==
  IF name \in DOMAIN V.by_name THEN [V |-> V, h |-> V.by_name[name]]
  ELSE LET idx == Len(V.variables)
       IN  [V |-> [variables |-> Append(V.variables, Variable_new_const(name, Null, FALSE)),
                   by_name |-> V.by_name @@ (name :> idx)],
            h |-> idx]

(* Variables::insert: panics on a name already present *)
insert(V, name, var) ==
  IF name \in DOMAIN V.by_name THEN [V |-> V, h |-> None, panic |-> TRUE]
  ELSE LET idx == Len(V.variables)
       IN  [V |-> [variables |-> Append(V.variables, var),
                   by_name |-> V.by_name @@ (name :> idx)],
            h |-> idx, panic |-> FALSE]

EmptyVariables == [variables |-> <<>>, by_name |-> <<>>]

(* impl From<[(&str, Variable); N]> for Variables *)
RECURSIVE VariablesFrom(_, _)
VariablesFrom(list, V) ==
  IF list = <<>> THEN V
  ELSE VariablesFrom(Tail(list), insert(V, Head(list).name, Head(list)).V)

-----------------------------------------------------------------------------
(* Buildings (building.rs, interface.rs: Device::construct) *)

MessageBuilding_new(name) == [name |-> name, kind |-> "Message", text |-> <<>>, data |-> <<>>]

MemoryBuilding_new(name, capacity) ==
  [name |-> name, kind |-> "Memory", text |-> <<>>, data |-> [k \in 1..capacity |-> F(0)]]

Device_construct(dev) ==
  IF dev.kind = "Message" THEN MessageBuilding_new(dev.name)
  ELSE MemoryBuilding_new(dev.name, dev.capacity)

(* The position in VM.buildings of the building a Value::Building refers to
   (0 for the ProcessorBuilding "@this", which is not in the list) *)
BuildingIndex(bs, name) ==
  IF \E k \in DOMAIN bs : bs[k].name = name
  THEN CHOOSE k \in DOMAIN bs : bs[k].name = name
  ELSE 0

-----------------------------------------------------------------------------
(* Source lines and the parser (instruction.rs)

   A line is the sequence of fields split_line returns for it.  A field is
   [name, k, f, s]: its text as an identifier, and what ValueArg::parse
   finds in it: k = "str" a quoted literal with content s, k = "num" a
   number f, k = "id" anything else. *)

Id(name) == [name |-> name, k |-> "id", f |-> F(0), s |-> <<>>]

NumTok(name, f) == [name |-> name, k |-> "num", f |-> f, s |-> <<>>]

StrTok(name, s) == [name |-> name, k |-> "str", f |-> F(0), s |-> s]

(* enum Operator, #[strum(serialize_all = "camelCase")] *)
Operator ==
  {"add", "sub", "mul", "div", "idiv", "mod", "pow", "not", "land", "lessThan",
   "lessThanEq", "greaterThan", "greaterThanEq", "strictEqual", "equal",
   "notEqual", "shl", "shr", "or", "and", "xor", "flip", "max", "min", "abs",
   "log", "log10", "floor", "ceil", "sqrt", "angle", "length", "sin", "cos",
   "tan", "asin", "acos", "atan", "rand"}

(* The argument selectors of each opcode in Instruction::parse *)
ArgKinds(opcode) ==
  CASE opcode = "read" -> <<"out", "in", "in">>
    [] opcode = "write" -> <<"in", "in", "in">>
    [] opcode = "print" -> <<"in">>
    [] opcode = "printchar" -> <<"in">>
    [] opcode = "format" -> <<"in">>
    [] opcode = "printflush" -> <<"in">>
    [] opcode = "getlink" -> <<"out", "in">>
    [] opcode = "sensor" -> <<"out", "in", "in">>
    [] opcode = "set" -> <<"out", "in">>
    [] opcode = "op" -> <<"op", "out", "in", "in">>
    [] opcode = "wait" -> <<"in">>
    [] opcode = "stop" -> <<>>
    [] opcode = "end" -> <<>>
    [] opcode = "jump" -> <<"in", "imm", "in", "in">>

Opcodes ==
  {"read", "write", "print", "printchar", "format", "printflush", "getlink",
   "sensor", "set", "op", "wait", "stop", "end", "jump"}

Arg(k, h, v, s) == [k |-> k, h |-> h, v |-> v, s |-> s]

(* ValueArg::parse: a literal (a new string object for a quoted one) or the
   handle of the variable of that name.  P = [V, cells, panic]. *)
ValueArg_parse(tok, P) ==
  CASE tok.k = "str" ->
         [P |-> [P EXCEPT !.cells = Append(P.cells, Uninit)],
          arg |-> Arg("Value", None, Str(Len(P.cells) + 1, tok.s), "")]
    [] tok.k = "num" -> [P |-> P, arg |-> Arg("Value", None, Num(tok.f), "")]
    [] tok.k = "id" ->
         Let(handle(P.V, tok.name), LAMBDA r :
           [P |-> [P EXCEPT !.V = r.V], arg |-> Arg("Variable", r.h, Null, "")])

(* macro arg!: out, in, imm, op *)
ParseArg(kind, tok, P) ==
  CASE kind = "out" ->
         Let(handle(P.V, tok.name), LAMBDA r :
           [P |-> [P EXCEPT !.V = r.V], arg |-> Arg("out", r.h, Null, "")])
    [] kind = "in" -> ValueArg_parse(tok, P)
    [] kind = "imm" -> [P |-> P, arg |-> Arg("imm", None, Null, tok.name)]
    [] kind = "op" ->
         [P |-> IF tok.name \in Operator THEN P ELSE [P EXCEPT !.panic = TRUE],
          arg |-> Arg("op", None, Null, tok.name)]

(* macro ins!: the arguments are parsed left to right *)
RECURSIVE ParseArgs(_, _, _, _)
ParseArgs(kinds, toks, P, acc) ==
  IF kinds = <<>> THEN [P |-> P, args |-> acc]
  ELSE Let(ParseArg(Head(kinds), Head(toks), P), LAMBDA r :
         ParseArgs(Tail(kinds), Tail(toks), r.P, Append(acc, r.arg)))

(* Instruction::parse: None for a line without fields; a panic for an
   unknown opcode, a missing argument or an unknown operator *)
Instruction_parse(line, P) ==
  IF line = <<>> THEN [P |-> P, some |-> FALSE, ins |-> Null]
  ELSE IF line[1].name \notin Opcodes \/ Len(line) - 1 < Len(ArgKinds(line[1].name))
  THEN [P |-> [P EXCEPT !.panic = TRUE], some |-> FALSE, ins |-> Null]
  ELSE Let(ParseArgs(ArgKinds(line[1].name), Tail(line), P, <<>>), LAMBDA r :
         [P |-> r.P, some |-> TRUE, ins |-> [op |-> line[1].name, args |-> r.args]])

(* ParseLines with a line without fields kept as an `end` instruction *)
RECURSIVE ParseLines_Placeholder(_, _, _)
ParseLines_Placeholder(lines, P, acc) ==
  IF lines = <<>> \/ P.panic THEN [P |-> P, code |-> acc]
  ELSE Let(Instruction_parse(Head(lines), P), LAMBDA r :
         ParseLines_Placeholder(Tail(lines), r.P,
             Append(acc, IF r.some THEN r.ins ELSE [op |-> "end", args |-> <<>>])))

(* code.split("\n").filter_map(|ln| Instruction::parse(ln, &mut vars)).collect() *)
RECURSIVE ParseLines(_, _, _)
ParseLines(lines, P, acc) ==
  IF lines = <<>> \/ P.panic THEN [P |-> P, code |-> acc]
  ELSE Let(Instruction_parse(Head(lines), P), LAMBDA r :
         ParseLines(Tail(lines), r.P, IF r.some THEN Append(acc, r.ins) ELSE acc))

-----------------------------------------------------------------------------
(* Instruction::split_line (instruction.rs).  A line is a sequence of
   characters (code points); the indices of the code are byte offsets into
   its UTF-8 encoding. *)

(* char::len_utf8 *)
len_utf8(ch) ==
  IF ch < 128 THEN 1 ELSE IF ch < 2048 THEN 2 ELSE IF ch < 65536 THEN 3 ELSE 4

(* The byte offset of the character at position k (1-based) of the line, as
   char_indices yields it; the length in bytes for k = Len(line) + 1 *)
RECURSIVE ByteOffset(_, _)
ByteOffset(line, k) ==
  IF k <= 1 THEN 0 ELSE ByteOffset(line, k - 1) + len_utf8(line[k - 1])

(* The position (1-based) of the first character at or after a byte offset *)
CharAt(line, at) == Cardinality({k \in DOMAIN line : ByteOffset(line, k) < at}) + 1

(* &line[from..to]: the characters at the byte offsets from .. to - 1 *)
Slice(line, from, to) ==
  [j \in 1 .. (CharAt(line, to) - CharAt(line, from)) |-> line[CharAt(line, from) + j - 1]]

(* The locals of split_line before the loop; k is the position of the next
   character of line.char_indices() *)
split_line_start(line) ==
  [line |-> line, k |-> 1, segments |-> <<>>, start |-> 0, next_start |-> FALSE,
   last_ch |-> 0, quotes |-> FALSE, done |-> FALSE]

(* The first branch of the loop body: push, or move start *)
split_line_push(st, i, ch) ==
  IF ch = 32 /\ ~st.quotes
  THEN [st EXCEPT !.segments = Append(st.segments, [from |-> st.start, to |-> i]),
                  !.next_start = TRUE]
  ELSE IF st.next_start
  THEN [st EXCEPT !.next_start = FALSE, !.start = i]
  ELSE st

(* One iteration of the loop on the character ch at byte offset i *)
split_line_char(st, i, ch) ==
  [split_line_push(st, i, ch) EXCEPT
     !.quotes = IF ch = 34 THEN ~st.quotes ELSE st.quotes,
     !.last_ch = i + len_utf8(ch),
     !.k = st.k + 1]

(* After the loop: the trailing segment *)
split_line_end(st) ==
  [st EXCEPT !.segments = IF st.start # st.last_ch
                          THEN Append(st.segments, [from |-> st.start, to |-> st.last_ch])
                          ELSE st.segments,
             !.done = TRUE]

(* No call of split_line *)
NoLex == [split_line_start(<<>>) EXCEPT !.done = TRUE]

(* One iteration of the loop of split_line *)
LexChar ==
  /\ ~lex.done /\ lex.k <= Len(lex.line)
  /\ lex' = split_line_char(lex, ByteOffset(lex.line, lex.k), lex.line[lex.k])
  /\ UNCHANGED <<options, new_result, variables, by_name, utf_16, code,
                 print_buffer, buildings, run, runs, last, printed, written,
                 flushed, variables0>>

(* The end of split_line *)
LexEnd ==
  /\ ~lex.done /\ lex.k > Len(lex.line)
  /\ lex' = split_line_end(lex)
  /\ UNCHANGED <<options, new_result, variables, by_name, utf_16, code,
                 print_buffer, buildings, run, runs, last, printed, written,
                 flushed, variables0>>

NextLex == LexChar \/ LexEnd

(* The parser of the root crate (src/src/instruction.rs): eight opcodes, and
   the fields of the line each argument is taken from.  Its read takes both
   the source and the index from field 2. *)
Opcodes_root ==
  {"read", "write", "print", "printchar", "format", "set", "printflush", "getlink"}

ArgFields_root(opcode) ==
  CASE opcode = "read" -> <<1, 2, 2>>
    [] opcode = "write" -> <<1, 2, 3>>
    [] opcode = "print" -> <<1>>
    [] opcode = "printchar" -> <<1>>
    [] opcode = "format" -> <<1>>
    [] opcode = "set" -> <<1, 2>>
    [] opcode = "printflush" -> <<1>>
    [] opcode = "getlink" -> <<1, 2>>

(* $args[$i] for each selector of the opcode *)
SelectedFields(line, fields) == [k \in DOMAIN fields |-> line[fields[k] + 1]]

(* Instruction::parse of the root crate *)
Instruction_parse_root(line, P) ==
  IF line = <<>> THEN [P |-> P, some |-> FALSE, ins |-> Null]
  ELSE IF \/ line[1].name \notin Opcodes_root
          \/ \E k \in DOMAIN ArgFields_root(line[1].name) :
                ArgFields_root(line[1].name)[k] + 1 > Len(line)
  THEN [P |-> [P EXCEPT !.panic = TRUE], some |-> FALSE, ins |-> Null]
  ELSE Let(ParseArgs(ArgKinds(line[1].name),
                     SelectedFields(line, ArgFields_root(line[1].name)), P, <<>>),
           LAMBDA r :
             [P |-> r.P, some |-> TRUE, ins |-> [op |-> line[1].name, args |-> r.args]])

RECURSIVE ParseLines_root(_, _, _)
ParseLines_root(lines, P, acc) ==
  IF lines = <<>> \/ P.panic THEN [P |-> P, code |-> acc]
  ELSE Let(Instruction_parse_root(Head(lines), P), LAMBDA r :
         ParseLines_root(Tail(lines), r.P, IF r.some THEN Append(acc, r.ins) ELSE acc))

-----------------------------------------------------------------------------
(* VM::new (vm.rs) *)

builtin(name, val, constant) == Variable_new_const(name, val, constant)

Builtins(n_buildings) ==
  << builtin("@counter", NumI(0), FALSE),
     builtin("@this", Null, TRUE),
     builtin("@thisx", NumI(0), TRUE),
     builtin("@thisy", NumI(0), TRUE),
     builtin("@ipt", NumI(1000), TRUE),
     builtin("@timescale", NumI(1), TRUE),
     builtin("@links", NumI(n_buildings), TRUE),
     builtin("@unit", Null, FALSE),
     builtin("@time", NumI(0), TRUE),
     builtin("@tick", NumI(0), TRUE),
     builtin("@second", NumI(0), TRUE),
     builtin("@minute", NumI(0), TRUE),
     builtin("@waveNumber", NumI(0), TRUE),
     builtin("@waveTime", NumI(0), TRUE),
     builtin("@mapw", NumI(0), TRUE),
     builtin("@maph", NumI(0), TRUE),
     builtin("null", Null, TRUE),
     builtin("true", NumI(1), TRUE),
     builtin("false", NumI(0), TRUE),
     builtin("@pi", Num(Sym(1)), TRUE),
     builtin("@e", Num(Sym(2)), TRUE),
     builtin("@degToRad", Num(Sym(3)), TRUE),
     builtin("@radToDeg", Num(Sym(4)), TRUE),
     builtin("blockCount", NumI(0), TRUE),
     builtin("unitCount", NumI(0), TRUE),
     builtin("itemCount", NumI(0), TRUE),
     builtin("liquidCount", NumI(0), TRUE) >>

RECURSIVE InsertProperties(_, _)
InsertProperties(props, V) ==
  IF props = <<>> THEN V
  ELSE InsertProperties(Tail(props),
         insert(V, PropertyVarName(Head(props)),
                Variable_new_const(PropertyVarName(Head(props)),
                                   Property(Head(props)), TRUE)).V)

(* for building in &buildings { vars.insert(name, const Building) } *)
RECURSIVE InsertBuildings(_, _)
InsertBuildings(bs, R) ==
  IF bs = <<>> \/ R.panic THEN R
  ELSE Let(insert(R.V, Head(bs).name,
                  Variable_new_const(Head(bs).name, Building(Head(bs).name), TRUE)),
           LAMBDA r : InsertBuildings(Tail(bs), [V |-> r.V, panic |-> r.panic]))

(* Variant: a program as long as the limit is refused *)
CodeCheck_Inclusive(prog, panic, code_len_limit) ==
  IF panic THEN Panic("VM::new")
  ELSE IF prog = <<>> THEN EmptyCode
  ELSE IF Len(prog) >= code_len_limit THEN CodeTooLong(Len(prog), code_len_limit)
  ELSE NoErr

(* The checks VM::new makes on the parsed code *)
CodeCheck(prog, panic, code_len_limit) ==
  IF panic THEN Panic("VM::new")
  ELSE IF prog = <<>> THEN EmptyCode
  ELSE IF Len(prog) > code_len_limit THEN CodeTooLong(Len(prog), code_len_limit)
  ELSE NoErr

(* The machine VM::new returns once the code is parsed and checked *)
VM_build(V, cells, prog, err) ==
  [err |-> err,
   variables |-> IF err.kind = "Ok"
                 THEN HandleForceSet(V.variables, get_handle(V.by_name, "@this"),
                                     Building("@this"))
                 ELSE V.variables,
   by_name |-> V.by_name,
   utf_16 |-> cells,
   code |-> prog]

(* VM::new: the error (or panic), or the machine *)
VM_new(lines, code_len_limit, bs) ==
  Let(InsertBuildings(bs,
        [V |-> InsertProperties(PROPERTIES,
                                VariablesFrom(Builtins(Len(bs)), EmptyVariables)),
         panic |-> FALSE]),
      LAMBDA R2 :
        Let(ParseLines(lines, [V |-> R2.V, cells |-> <<>>, panic |-> R2.panic], <<>>),
            LAMBDA pr :
              VM_build(pr.P.V, pr.P.cells, pr.code,
                       CodeCheck(pr.code, pr.P.panic, code_len_limit))))

(* VM::new over the parser of the root crate *)
VM_new_root(lines, code_len_limit, bs) ==
  Let(InsertBuildings(bs,
        [V |-> InsertProperties(PROPERTIES,
                                VariablesFrom(Builtins(Len(bs)), EmptyVariables)),
         panic |-> FALSE]),
      LAMBDA R2 :
        Let(ParseLines_root(lines, [V |-> R2.V, cells |-> <<>>, panic |-> R2.panic], <<>>),
            LAMBDA pr :
              VM_build(pr.P.V, pr.P.cells, pr.code,
                       CodeCheck(pr.code, pr.P.panic, code_len_limit))))

-----------------------------------------------------------------------------
(* The print buffer (vm.rs: PrintBuffer) *)

PrintBuffer_write(buf, string) == buf \o string

(* String::from_utf16(&[ch]) fails exactly on a surrogate code unit *)
PrintBuffer_write_utf_16(buf, ch) ==
  IF ch >= 55296 /\ ch <= 57343 THEN Fail(InvalidCharacter(ch))
  ELSE Ok(PrintBuffer_write(buf, <<ch>>))

PrintBuffer_format(buf, string) == Fail(InvalidFormat("not implemented"))

(* Variant: the buffer keeps its contents *)
PrintBuffer_take_Keep(buf) == [string |-> buf, buf |-> buf]

(* PrintBuffer::take: the contents, and the buffer left behind *)
PrintBuffer_take(buf) == [string |-> buf, buf |-> <<>>]

-----------------------------------------------------------------------------
(* f64 arithmetic and comparison on the modelled numbers *)

FAdd(a, b) ==
  CASE a.cls = "nan" \/ b.cls = "nan" -> NaN
    [] a.cls = "inf" /\ b.cls = "inf" -> IF a.n = b.n THEN a ELSE NaN
    [] a.cls = "inf" /\ b.cls = "fin" -> a
    [] a.cls = "fin" /\ b.cls = "inf" -> b
    [] a.cls = "fin" /\ b.cls = "fin" -> F(a.n + b.n)

FNeg(a) ==
  CASE a.cls = "nan" -> NaN
    [] a.cls = "inf" -> Inf(-a.n)
    [] a.cls = "fin" -> F(-a.n)

FSub(a, b) == FAdd(a, FNeg(b))

FLess(a, b) ==
  CASE a.cls = "nan" \/ b.cls = "nan" -> FALSE
    [] a.cls = "inf" /\ b.cls = "inf" -> a.n < b.n
    [] a.cls = "inf" /\ b.cls = "fin" -> a.n < 0
    [] a.cls = "fin" /\ b.cls = "inf" -> b.n > 0
    [] a.cls = "fin" /\ b.cls = "fin" -> a.n < b.n

FLessEq(a, b) == FLess(a, b) \/ F64Eq(a, b)

Abs(k) == IF k < 0 THEN -k ELSE k

Sign(k) == IF k < 0 THEN -1 ELSE 1

(* f64 `/`: IEEE division, no error.  A finite dividend over zero is an
   infinity (NaN for 0/0); the zeros of the model are positive.  A quotient
   that is no multiple of 1/2 is outside the modelled numbers and has no
   arm. *)
FDiv(a, b) ==
  CASE a.cls = "nan" \/ b.cls = "nan" -> NaN
    [] a.cls = "inf" /\ b.cls = "inf" -> NaN
    [] a.cls = "inf" /\ b.cls = "fin" -> Inf(a.n * Sign(b.n))
    [] a.cls = "fin" /\ b.cls = "inf" -> F(0)
    [] a.cls = "fin" /\ b.cls = "fin" /\ b.n = 0 ->
         IF a.n = 0 THEN NaN ELSE Inf(Sign(a.n))
    [] a.cls = "fin" /\ b.cls = "fin" /\ b.n # 0 /\ (2 * Abs(a.n)) % Abs(b.n) = 0 ->
         F(Sign(a.n) * Sign(b.n) * ((2 * Abs(a.n)) \div Abs(b.n)))

(* An i64: a modelled integer k, or one of the two ends of the type, which
   are beyond the integers of the model *)
I64(k) == [sat |-> 0, k |-> k]

I64_MIN == [sat |-> -1, k |-> 0]

I64_MAX == [sat |-> 1, k |-> 0]

(* `as i64` on an f64: truncation toward zero, 0 for NaN, and saturation of
   the infinities at i64::MIN and i64::MAX *)
AsI64(a) ==
  CASE a.cls = "nan" -> I64(0)
    [] a.cls = "inf" -> IF a.n < 0 THEN I64_MIN ELSE I64_MAX
    [] a.cls = "fin" -> I64(Sign(a.n) * (Abs(a.n) \div 2))

(* `as f64` on an i64.  The ends of the type are outside the modelled
   numbers and have no arm. *)
I64AsF64(i) ==
  CASE i.sat = 0 -> F(2 * i.k)

(* i64::checked_div(..).ok_or(VmError::DivisionByZero): None for a zero
   divisor and for the overflow of i64::MIN / -1; the quotient truncates
   toward zero.  A quotient of an end of the type by a modelled integer
   other than 1 and -1 is outside the model and has no arm. *)
checked_div(a, b) ==
  IF b = I64(0) THEN Fail(DivisionByZero)
  ELSE IF a = I64_MIN /\ b = I64(-1) THEN Fail(DivisionByZero)
  ELSE CASE a.sat = 0 /\ b.sat = 0 ->
              Ok(I64(Sign(a.k) * Sign(b.k) * (Abs(a.k) \div Abs(b.k))))
         [] a.sat = 0 /\ b.sat # 0 -> Ok(I64(0))
         [] a.sat # 0 /\ b = I64(1) -> Ok(a)
         [] a.sat # 0 /\ b.sat # 0 ->
              Ok(I64(IF a = b THEN 1 ELSE IF a = I64_MIN THEN -1 ELSE 0))

Bool(c) == IF c THEN NumI(1) ELSE NumI(0)

-----------------------------------------------------------------------------
(* Instruction::execute (instruction.rs)

   M = [variables, by_name, utf_16, print_buffer, buildings] is the machine
   the instruction works on.  The result is the machine after it, the error,
   the halt flag, and a report for the history variables: the handle of the
   variable it stored into, whether it took the print buffer, and the text
   it printed. *)

ExecRes(M, err, halt, wrote, took, out) ==
  [M |-> M, err |-> err, halt |-> halt, wrote |-> wrote, took |-> took, out |-> out]

Failed(M, err) == ExecRes(M, err, FALSE, None, FALSE, <<>>)

Succeeded(M) == ExecRes(M, NoErr, FALSE, None, FALSE, <<>>)

(* ValueArg::eval *)
eval(arg, vs) == IF arg.k = "Value" THEN arg.v ELSE HandleVal(vs, arg.h)

(* The ? operator inside execute: the instruction fails on machine M with the
   error of r, or goes on with its value *)
TryM(M, r, Rest(_)) == IF IsOk(r) THEN Rest(r.v) ELSE Failed(M, r.err)

(* dst.set(vars, value)? *)
SetDst(M, h, value) ==
  TryM(M, HandleSet(M.variables, h, value), LAMBDA vs :
    ExecRes([M EXCEPT !.variables = vs], NoErr, FALSE, h, FALSE, <<>>))

(* Variant: a name that is not in the store reads as null *)
ProcessorBuilding_read_Lenient(M, index) ==
  Try(as_str(index), LAMBDA s :
    Let(get_handle_text(M.by_name, s.s), LAMBDA h :
      IF h = None THEN Ok(Null) ELSE Ok(HandleVal(M.variables, h))))

(* ProcessorBuilding::read *)
ProcessorBuilding_read(M, index) ==
  Try(as_str(index), LAMBDA s :
    Let(get_handle_text(M.by_name, s.s), LAMBDA h :
      IF h = None THEN Fail(VariableNotFound(to_string(index)))
      ELSE Ok(HandleVal(M.variables, h))))

(* Variant: a name that is not in the store is given a new slot *)
ProcessorBuilding_write_Interning(M, index, value) ==
  Try(as_str(index), LAMBDA s :
    Let(get_handle_text(M.by_name, s.s), LAMBDA h :
      IF h = None
      THEN Ok([variables |-> Append(M.variables, Variable_new_const("zz", value, FALSE)),
               h |-> Len(M.variables)])
      ELSE Try(HandleSet(M.variables, h, value), LAMBDA vs :
             Ok([variables |-> vs, h |-> h]))))

(* ProcessorBuilding::write: the slots after the write and the handle *)
ProcessorBuilding_write(M, index, value) ==
  Try(as_str(index), LAMBDA s :
    Let(get_handle_text(M.by_name, s.s), LAMBDA h :
      IF h = None THEN Fail(VariableNotFound(to_string(index)))
      ELSE Try(HandleSet(M.variables, h, value), LAMBDA vs :
             Ok([variables |-> vs, h |-> h]))))

(* MemoryBuilding::read *)
MemoryBuilding_read(b, index) ==
  Try(do_index(index, b.data, "memory cell"), LAMBDA f : Ok(Num(f)))

(* Variant: the value lands in the cell after the one asked for, the last
   cell in the first *)
MemoryBuilding_write_Shifted(b, index, value) ==
  Try(as_index(index, Len(b.data), "memory cell"), LAMBDA idx :
    Try(as_num(value), LAMBDA val :
      Ok([b EXCEPT !.data[((idx + 1) % Len(b.data)) + 1] = val])))

(* MemoryBuilding::write: the building after the write *)
MemoryBuilding_write(b, index, value) ==
  Try(as_index(index, Len(b.data), "memory cell"), LAMBDA idx :
    Try(as_num(value), LAMBDA val : Ok([b EXCEPT !.data[idx + 1] = val])))

(* Variant: the flushed text is appended to what the display shows *)
MessageBuilding_print_flush_Append(b, string) == [b EXCEPT !.text = b.text \o string]

(* MessageBuilding::print_flush *)
MessageBuilding_print_flush(b, string) == [b EXCEPT !.text = string]

(* dyn Building::read, dispatched on the building at position k *)
Building_read(M, k, name, index) ==
  IF k = 0 THEN ProcessorBuilding_read(M, index)
  ELSE IF M.buildings[k].kind = "Memory" THEN MemoryBuilding_read(M.buildings[k], index)
  ELSE Fail(InvalidBuildingType("read from", name))

(* Variant: a building without sensors reads as null *)
Building_sense_Null(M, name, property) == Ok(Null)

(* dyn Building::sense: no building implements it *)
Building_sense(M, name, property) == Fail(InvalidBuildingType("sense from", name))

(* Value::sense: the reading, and the string cells after it *)
Value_sense(M, v, property) ==
  CASE v.tag = "Str" /\ property = "size" ->
         Let(as_utf_16(M.utf_16, v), LAMBDA u :
           [r |-> Ok(NumI(Len(u.units))), cells |-> u.cells])
    [] v.tag = "Building" -> [r |-> Building_sense(M, v.name, property), cells |-> M.utf_16]
    [] OTHER -> [r |-> Ok(Null), cells |-> M.utf_16]

(* read from a string: the code units are materialised, then indexed *)
ExecReadStr(M, dst, src, idx) ==
  Let(as_utf_16(M.utf_16, src), LAMBDA u :
    Let([M EXCEPT !.utf_16 = u.cells], LAMBDA M1 :
      TryM(M1, do_index(idx, u.units, "string"), LAMBDA unit :
        SetDst(M1, dst, NumI(unit)))))

ExecRead(M, ins) ==
  Let(eval(ins.args[2], M.variables), LAMBDA src :
    IF src.tag = "Str"
    THEN ExecReadStr(M, ins.args[1].h, src, eval(ins.args[3], M.variables))
    ELSE TryM(M, as_building(src), LAMBDA name :
           TryM(M, Building_read(M, BuildingIndex(M.buildings, name), name,
                                 eval(ins.args[3], M.variables)),
                LAMBDA value : SetDst(M, ins.args[1].h, value))))

(* dyn Building::write on the building at position k *)
Building_write(M, k, name, index, value) ==
  IF k = 0
  THEN TryM(M, ProcessorBuilding_write(M, index, value), LAMBDA w :
         ExecRes([M EXCEPT !.variables = w.variables], NoErr, FALSE, w.h, FALSE, <<>>))
  ELSE IF M.buildings[k].kind = "Memory"
  THEN TryM(M, MemoryBuilding_write(M.buildings[k], index, value), LAMBDA b :
         Succeeded([M EXCEPT !.buildings[k] = b]))
  ELSE Failed(M, InvalidBuildingType("write into", name))

(* dst.eval(vars)?.as_building()?.write(idx.eval(vars)?, src.eval(vars)?)? *)
ExecWrite(M, ins) ==
  TryM(M, as_building(eval(ins.args[2], M.variables)), LAMBDA name :
    Building_write(M, BuildingIndex(M.buildings, name), name,
                   eval(ins.args[3], M.variables), eval(ins.args[1], M.variables)))

ExecPrint(M, ins) ==
  Let(to_string(eval(ins.args[1], M.variables)), LAMBDA text :
    ExecRes([M EXCEPT !.print_buffer = PrintBuffer_write(M.print_buffer, text)],
            NoErr, FALSE, None, FALSE, text))

(* Variant: the code is appended as it is, without the cast to u16 *)
ExecPrintChar_Wide(M, ins) ==
  TryM(M, as_int(eval(ins.args[1], M.variables)), LAMBDA i :
    TryM(M, PrintBuffer_write_utf_16(M.print_buffer, i), LAMBDA buf :
      ExecRes([M EXCEPT !.print_buffer = buf], NoErr, FALSE, None, FALSE,
              <<i>>)))

(* print_buffer.write_utf_16(val.eval(vars)?.as_int()? as u16)? *)
ExecPrintChar(M, ins) ==
  TryM(M, as_int(eval(ins.args[1], M.variables)), LAMBDA i :
    TryM(M, PrintBuffer_write_utf_16(M.print_buffer, i % 65536), LAMBDA buf :
      ExecRes([M EXCEPT !.print_buffer = buf], NoErr, FALSE, None, FALSE,
              <<i % 65536>>)))

ExecFormat(M, ins) ==
  Failed(M, PrintBuffer_format(M.print_buffer,
                               to_string(eval(ins.args[1], M.variables))).err)

(* dyn Building::print_flush on the building at position k of machine M1,
   whose buffer has been taken *)
Building_print_flush(M1, k, name, string) ==
  IF k # 0 /\ M1.buildings[k].kind = "Message"
  THEN ExecRes([M1 EXCEPT !.buildings[k] =
                    MessageBuilding_print_flush(M1.buildings[k], string)],
               NoErr, FALSE, None, TRUE, <<>>)
  ELSE ExecRes(M1, InvalidBuildingType("print flush into", name), FALSE, None, TRUE, <<>>)

(* val.eval(vars)?.as_building()?.print_flush(print_buffer.take())?: the
   buffer is taken before the building is asked to accept it *)
ExecPrintFlush(M, ins) ==
  TryM(M, as_building(eval(ins.args[1], M.variables)), LAMBDA name :
    Let(PrintBuffer_take(M.print_buffer), LAMBDA t :
      Building_print_flush([M EXCEPT !.print_buffer = t.buf],
                           BuildingIndex(M.buildings, name), name, t.string)))

(* Variant: the links are counted from the last device *)
ExecGetLink_Reversed(M, ins) ==
  TryM(M, as_index(eval(ins.args[2], M.variables), Len(M.buildings), "get link"),
       LAMBDA idx :
         SetDst(M, ins.args[1].h, Building(M.buildings[Len(M.buildings) - idx].name)))

(* dst.set(vars, Value::Building(idx.eval(vars)?.do_index(buildings, "get link")?.clone()))? *)
ExecGetLink(M, ins) ==
  TryM(M, do_index(eval(ins.args[2], M.variables), M.buildings, "get link"), LAMBDA b :
    SetDst(M, ins.args[1].h, Building(b.name)))

(* dst.set(vars, src.eval(vars)?.sense(prop.eval(vars)?.as_property()?)?)? *)
ExecSensor(M, ins) ==
  TryM(M, as_property(eval(ins.args[3], M.variables)), LAMBDA prop :
    Let(Value_sense(M, eval(ins.args[2], M.variables), prop), LAMBDA s :
      Let([M EXCEPT !.utf_16 = s.cells], LAMBDA M1 :
        TryM(M1, s.r, LAMBDA value : SetDst(M1, ins.args[1].h, value)))))

ExecSet(M, ins) == SetDst(M, ins.args[1].h, eval(ins.args[2], M.variables))

(* macro two_nums!: ($a.eval($vars)?.as_num()?, $b.eval($vars)?.as_num()?) *)
two_nums(M, a, b) ==
  Try(as_num(eval(a, M.variables)), LAMBDA x :
    Try(as_num(eval(b, M.variables)), LAMBDA y : Ok([a |-> x, b |-> y])))

(* a.abs() > f64::EPSILON on the numbers of the model (multiples of 1/2, the
   infinities and NaN) *)
AboveEpsilon(a) == a.cls = "inf" \/ (a.cls = "fin" /\ a.n # 0)

(* macro binary! applied to the operators on two numbers *)
Binary(op, a, b) ==
  CASE op = "add" -> Num(FAdd(a, b))
    [] op = "sub" -> Num(FSub(a, b))
    [] op = "div" -> Num(FDiv(a, b))
    [] op = "lessThan" -> Bool(FLess(a, b))
    [] op = "lessThanEq" -> Bool(FLessEq(a, b))
    [] op = "greaterThan" -> Bool(FLess(b, a))
    [] op = "greaterThanEq" -> Bool(FLessEq(b, a))
    [] op = "land" -> Bool(AboveEpsilon(a) /\ AboveEpsilon(b))

(* Variant: `not` is the complement of the operand as an integer *)
Unary_Flip(op, a) ==
  CASE op = "not" -> NumI(-1 - AsI64(a).k)

(* macro unary! applied to `not`: 1 for a.abs() < f64::EPSILON, else 0 *)
Unary(op, a) ==
  CASE op = "not" -> Num(IF a.cls = "fin" /\ a.n = 0 THEN F(2) ELSE F(0))

(* macro binary_i! with ?fn, applied to idiv *)
BinaryI(op, a, b) ==
  CASE op = "idiv" ->
         Try(checked_div(AsI64(a), AsI64(b)), LAMBDA k : Ok(Num(I64AsF64(k))))

(* The value an op instruction computes, or the error *)
OpValue(M, op, a, b) ==
  CASE op \in {"strictEqual", "equal"} ->
         Ok(Bool(ValueEq(M.utf_16, eval(a, M.variables), eval(b, M.variables))))
    [] op = "notEqual" ->
         Ok(Bool(~ValueEq(M.utf_16, eval(a, M.variables), eval(b, M.variables))))
    [] op \in {"add", "sub", "div", "lessThan", "lessThanEq", "greaterThan",
                "greaterThanEq", "land"} ->
         Try(two_nums(M, a, b), LAMBDA n : Ok(Binary(op, n.a, n.b)))
    [] op = "not" ->
         Try(as_num(eval(a, M.variables)), LAMBDA x : Ok(Unary(op, x)))
    [] op = "idiv" ->
         Try(two_nums(M, a, b), LAMBDA n : BinaryI(op, n.a, n.b))

ExecOp(M, ins) ==
  TryM(M, OpValue(M, ins.args[1].s, ins.args[3], ins.args[4]), LAMBDA value :
    SetDst(M, ins.args[2].h, value))

(* only checks if parameter is a number *)
ExecWait(M, ins) ==
  TryM(M, as_num(eval(ins.args[1], M.variables)), LAMBDA time : Succeeded(M))

(* Variant: stop is an instruction without effect *)
ExecStop_Continue(M, ins) == ExecRes(M, NoErr, FALSE, None, FALSE, <<>>)

(* Instruction::Stop => return Ok(InstructionExecuteResult { halt: true }) *)
ExecStop(M, ins) == ExecRes(M, NoErr, TRUE, None, FALSE, <<>>)

(* Variant: end leaves @counter as the cycle advanced it *)
ExecEnd_Stay(M, ins, pc) == Succeeded(M)

(* Instruction::End => pc.set(vars, num!(0.))? *)
ExecEnd(M, ins, pc) == SetDst(M, pc, NumI(0))

(* The comparison of a jump on two numbers *)
JumpCompare(op, a, b) ==
  CASE op = "lessThan" -> Ok(FLess(a, b))
    [] op = "lessThanEq" -> Ok(FLessEq(a, b))
    [] op = "greaterThan" -> Ok(FLess(b, a))
    [] op = "greaterThanEq" -> Ok(FLessEq(b, a))
    [] OTHER -> Fail(InvalidOperation(op))

(* The condition of a jump other than "always": its truth, or the error *)
JumpCond(M, op, x, y) ==
  CASE op \in {"equal", "strictEqual"} -> Ok(ValueEq(M.utf_16, x, y))
    [] op = "notEqual" -> Ok(~ValueEq(M.utf_16, x, y))
    [] OTHER -> Try(as_num(x), LAMBDA a :
                  Try(as_num(y), LAMBDA b : JumpCompare(op, a, b)))

ExecJump(M, ins, pc) ==
  TryM(M, IF ins.args[2].s = "always" THEN Ok(TRUE)
          ELSE JumpCond(M, ins.args[2].s, eval(ins.args[3], M.variables),
                        eval(ins.args[4], M.variables)),
       LAMBDA taken :
         IF taken THEN SetDst(M, pc, eval(ins.args[1], M.variables))
         ELSE Succeeded(M))

Instruction_execute(M, ins, pc) ==
  CASE ins.op = "read" -> ExecRead(M, ins)
    [] ins.op = "write" -> ExecWrite(M, ins)
    [] ins.op = "print" -> ExecPrint(M, ins)
    [] ins.op = "printchar" -> ExecPrintChar(M, ins)
    [] ins.op = "format" -> ExecFormat(M, ins)
    [] ins.op = "printflush" -> ExecPrintFlush(M, ins)
    [] ins.op = "getlink" -> ExecGetLink(M, ins)
    [] ins.op = "sensor" -> ExecSensor(M, ins)
    [] ins.op = "set" -> ExecSet(M, ins)
    [] ins.op = "op" -> ExecOp(M, ins)
    [] ins.op = "wait" -> ExecWait(M, ins)
    [] ins.op = "stop" -> ExecStop(M, ins)
    [] ins.op = "end" -> ExecEnd(M, ins, pc)
    [] ins.op = "jump" -> ExecJump(M, ins, pc)

-----------------------------------------------------------------------------
(* VM::cycle and VM::run (vm.rs) *)

pc_handle == get_handle(by_name, "@counter")

Machine ==
  [variables |-> variables, by_name |-> by_name, utf_16 |-> utf_16,
   print_buffer |-> print_buffer, buildings |-> buildings]

NoPos == -1

(* PosVmError(err, Option<pos>) *)
PosVmError(err, pos) == [err |-> err, pos |-> pos]

(* Variant: a counter beyond the end dispatches the last instruction *)
Dispatch_Clamp(pc, len) == IF pc >= len THEN [pc |-> len - 1, pc_wrap |-> TRUE]
                           ELSE [pc |-> pc, pc_wrap |-> FALSE]

(* Variant: the index is reduced modulo the program length *)
Dispatch_Modulo(pc, len) == [pc |-> pc % len, pc_wrap |-> pc >= len]

(* The index cycle dispatches and the wrap flag, from the integer in @counter *)
Dispatch(pc, len) == IF pc >= len THEN [pc |-> 0, pc_wrap |-> TRUE]
                     ELSE [pc |-> pc, pc_wrap |-> FALSE]

(* Variant: the error is given the position of the first instruction *)
CycleErr_WithPos(M, err, before) ==
  [M |-> M, err |-> PosVmError(err, 0), pc |-> NoPos, pc_wrap |-> FALSE,
   halt |-> FALSE, exec |-> Failed(M, NoErr), before |-> before]

(* A cycle that returns before dispatching *)
CycleErr(M, err, before) ==
  [M |-> M, err |-> PosVmError(err, NoPos), pc |-> NoPos, pc_wrap |-> FALSE,
   halt |-> FALSE, exec |-> Failed(M, NoErr), before |-> before]

(* Variant: the error carries the advanced counter *)
CycleRes_PosAfter(e, d, before) ==
  [M |-> e.M,
   err |-> IF e.err.kind = "Ok" THEN PosVmError(NoErr, NoPos)
           ELSE PosVmError(e.err, d.pc + 1),
   pc |-> d.pc, pc_wrap |-> d.pc_wrap, halt |-> e.halt, exec |-> e, before |-> before]

(* The result of a cycle that executed code[pc] with outcome e *)
CycleRes(e, d, before) ==
  [M |-> e.M,
   err |-> IF e.err.kind = "Ok" THEN PosVmError(NoErr, NoPos) ELSE PosVmError(e.err, d.pc),
   pc |-> d.pc, pc_wrap |-> d.pc_wrap, halt |-> e.halt, exec |-> e, before |-> before]

(* Variant: the counter is advanced after the instruction has executed *)
CycleExec_AdvanceAfter(M, prog, pch, d, before) ==
  Let(Instruction_execute(M, prog[d.pc + 1], pch), LAMBDA e :
    CycleRes([e EXCEPT !.M.variables = HandleSet(e.M.variables, pch, NumI(d.pc + 1)).v],
             d, before))

(* Variant: a wrap cycle advances the counter and executes nothing *)
CycleExec_SkipOnWrap(M, prog, pch, d, before) ==
  IF d.pc_wrap
  THEN CycleRes(Succeeded([M EXCEPT !.variables =
                              HandleSet(M.variables, pch, NumI(d.pc + 1)).v]),
                d, before)
  ELSE CycleRes(Instruction_execute(
                  [M EXCEPT !.variables = HandleSet(M.variables, pch, NumI(d.pc + 1)).v],
                  prog[d.pc + 1], pch),
                d, before)

(* self.pc_handle.set(num!(pc as f64 + 1.)).unwrap(), then code[pc].execute *)
CycleExec(M, prog, pch, d, before) ==
  CycleRes(Instruction_execute(
             [M EXCEPT !.variables = HandleSet(M.variables, pch, NumI(d.pc + 1)).v],
             prog[d.pc + 1], pch),
           d, before)

(* Variant: on a negative counter the first instruction is executed before
   the error is returned *)
Cycle_ExecThenFail(M, prog, pch) ==
  Let(as_int(HandleVal(M.variables, pch)), LAMBDA pc :
    IF ~IsOk(pc) THEN CycleErr(M, PcResError(pc.err), HandleVal(M.variables, pch))
    ELSE IF pc.v < 0
    THEN CycleErr(Instruction_execute(M, prog[1], pch).M,
                  NegativeIndex(pc.v, "program counter"), HandleVal(M.variables, pch))
    ELSE CycleExec(M, prog, pch, Dispatch(pc.v, Len(prog)), HandleVal(M.variables, pch)))

(* What one call of VM::cycle does to machine M: the machine after it, the
   PosVmError or the VmCycleResult, and the execution report *)
Cycle(M, prog, pch) ==
  Let(as_int(HandleVal(M.variables, pch)), LAMBDA pc :
    IF ~IsOk(pc) THEN CycleErr(M, PcResError(pc.err), HandleVal(M.variables, pch))
    ELSE IF pc.v < 0
    THEN CycleErr(M, NegativeIndex(pc.v, "program counter"), HandleVal(M.variables, pch))
    ELSE CycleExec(M, prog, pch, Dispatch(pc.v, Len(prog)), HandleVal(M.variables, pch)))

(* The operand values an instruction reads, evaluated as execute evaluates
   them: on the variables vs with @counter already advanced to pc + 1 *)
OperandsIn(ins, vs) ==
  [k \in DOMAIN ins.args |->
     IF ins.args[k].k \in {"Value", "Variable"} THEN eval(ins.args[k], vs) ELSE Null]

Operands(prog, vs, pch, pc) ==
  IF pc = NoPos THEN <<>>
  ELSE OperandsIn(prog[pc + 1], HandleSet(vs, pch, NumI(pc + 1)).v)

NoIns == [op |-> "none", args |-> <<>>]

NoCycle ==
  [ran |-> FALSE, before |-> Null, pc |-> NoPos, pc_wrap |-> FALSE, halt |-> FALSE,
   err |-> PosVmError(NoErr, NoPos), ins |-> NoIns, operands |-> <<>>,
   wrote |-> None, took |-> FALSE, printed |-> <<>>, devices |-> <<>>]

Idle ==
  [state |-> "idle", limit |-> 0, end_on_wrap |-> FALSE, i |-> 0, result |-> "none",
   err |-> PosVmError(NoErr, NoPos)]

(* The devices every run of the model declares, in order *)
Devices ==
  << [name |-> "m1", kind |-> "Message", capacity |-> 0],
     [name |-> "c1", kind |-> "Memory", capacity |-> MemCapacity] >>

(* interface.rs: run_from_options builds the devices and the machine *)
ConstructedDevices == [k \in DOMAIN Devices |-> Device_construct(Devices[k])]

(* The state once the devices and the machine vm are built *)
InitFrom(vm, lines, code_len_limit, bs) ==
        /\ options = [code |-> lines, code_len_limit |-> code_len_limit]
        /\ new_result = vm.err
        /\ variables = vm.variables
        /\ by_name = vm.by_name
        /\ utf_16 = vm.utf_16
        /\ code = vm.code
        /\ print_buffer = <<>>
        /\ buildings = bs
        /\ run = Idle
        /\ runs = 0
        /\ last = NoCycle
        /\ printed = <<>>
        /\ written = [k \in DOMAIN bs |-> [j \in DOMAIN bs[k].data |-> NumI(0)]]
        /\ flushed = [k \in DOMAIN bs |-> <<>>]
        /\ variables0 = vm.variables

InitWith(Sources, Limits) ==
  \E lines \in Sources, code_len_limit \in Limits :
    \E bs \in {ConstructedDevices} :
    \E vm \in {VM_new(lines, code_len_limit, bs)} :
      InitFrom(vm, lines, code_len_limit, bs) /\ lex = NoLex

(* The same with the machine of the root crate's parser *)
InitWithRoot(Sources, Limits) ==
  \E lines \in Sources, code_len_limit \in Limits :
    \E bs \in {ConstructedDevices} :
    \E vm \in {VM_new_root(lines, code_len_limit, bs)} :
      InitFrom(vm, lines, code_len_limit, bs) /\ lex = NoLex

(* A call of VM::run(limit, end_on_wrap) on the constructed machine *)
RunCall(limit, end_on_wrap) ==
  /\ new_result.kind = "Ok"
  /\ run.state # "running"
  /\ runs < MaxRuns
  /\ run' = [state |-> "running", limit |-> limit, end_on_wrap |-> end_on_wrap,
             i |-> 0, result |-> "none", err |-> PosVmError(NoErr, NoPos)]
  /\ runs' = runs + 1
  /\ UNCHANGED <<options, new_result, variables, by_name, utf_16, code,
                 print_buffer, buildings, last, printed, written, flushed,
                 variables0, lex>>

(* Variant: one iteration more *)
LoopContinues_Inclusive(r) == r.i <= r.limit

(* for _ in 0..limit: the loop of VM::run has an iteration left *)
LoopContinues(r) == r.i < r.limit

(* Variant: the wrap is looked at before the halt *)
RunAfter_PcWrapFirst(r, c) ==
  IF c.err.err.kind # "Ok"
  THEN [r EXCEPT !.state = "returned", !.result = "Err", !.err = c.err, !.i = r.i + 1]
  ELSE IF c.pc_wrap /\ r.end_on_wrap
  THEN [r EXCEPT !.state = "returned", !.result = "PcWrap", !.i = r.i + 1]
  ELSE IF c.halt
  THEN [r EXCEPT !.state = "returned", !.result = "Halt", !.i = r.i + 1]
  ELSE [r EXCEPT !.i = r.i + 1]

(* What VM::run does with the outcome of a cycle: run.i counts the cycles *)
RunAfter(r, c) ==
  IF c.err.err.kind # "Ok"
  THEN [r EXCEPT !.state = "returned", !.result = "Err", !.err = c.err, !.i = r.i + 1]
  ELSE IF c.halt
  THEN [r EXCEPT !.state = "returned", !.result = "Halt", !.i = r.i + 1]
  ELSE IF c.pc_wrap /\ r.end_on_wrap
  THEN [r EXCEPT !.state = "returned", !.result = "PcWrap", !.i = r.i + 1]
  ELSE [r EXCEPT !.i = r.i + 1]

(* The cells of the memory buildings after a successful write instruction,
   from its operands: the value operand at the index operand *)
WrittenCell(w, ops, k, bs) ==
  IF k # 0 /\ bs[k].kind = "Memory"
  THEN [w EXCEPT ![k][(ops[3].f.n \div 2) + 1] = ops[1]]
  ELSE w

WrittenAfter(w, c, bs, ops) ==
  IF c.pc # NoPos /\ c.exec.err.kind = "Ok" /\ code[c.pc + 1].op = "write"
  THEN WrittenCell(w, ops, BuildingIndex(bs, ops[2].name), bs)
  ELSE w

(* The prints a successful printflush instruction put on a display, from
   its operand: what print and printchar put out since the last take *)
FlushedDisplay(fl, ops, k, bs, out) ==
  IF k # 0 /\ bs[k].kind = "Message" THEN [fl EXCEPT ![k] = out] ELSE fl

FlushedAfter(fl, c, bs, ops, out) ==
  IF c.pc # NoPos /\ c.exec.err.kind = "Ok" /\ code[c.pc + 1].op = "printflush"
  THEN FlushedDisplay(fl, ops, BuildingIndex(bs, ops[1].name), bs, out)
  ELSE fl

(* One iteration of the loop of VM::run: a call of VM::cycle *)
RunCycle ==
  /\ run.state = "running"
  /\ LoopContinues(run)
  /\ \E c \in {Cycle(Machine, code, pc_handle)} :
         /\ variables' = c.M.variables
         /\ by_name' = c.M.by_name
         /\ utf_16' = c.M.utf_16
         /\ print_buffer' = c.M.print_buffer
         /\ buildings' = c.M.buildings
         /\ run' = RunAfter(run, c)
         /\ last' = [ran |-> TRUE, before |-> c.before, pc |-> c.pc,
                     pc_wrap |-> c.pc_wrap, halt |-> c.halt, err |-> c.err,
                     ins |-> IF c.pc = NoPos THEN NoIns ELSE code[c.pc + 1],
                     operands |-> Operands(code, variables, pc_handle, c.pc),
                     wrote |-> c.exec.wrote, took |-> c.exec.took,
                     printed |-> printed, devices |-> buildings]
         /\ printed' = IF c.exec.took THEN <<>> ELSE printed \o c.exec.out
         /\ written' = WrittenAfter(written, c, buildings,
                                     Operands(code, variables, pc_handle, c.pc))
         /\ flushed' = FlushedAfter(flushed, c, buildings,
                                     Operands(code, variables, pc_handle, c.pc),
                                     printed)
  /\ UNCHANGED <<options, new_result, code, runs, variables0, lex>>

(* The loop of VM::run is exhausted *)
RunInsLimit ==
  /\ run.state = "running"
  /\ ~LoopContinues(run)
  /\ run' = [run EXCEPT !.state = "returned", !.result = "InsLimit"]
  /\ UNCHANGED <<options, new_result, variables, by_name, utf_16, code,
                 print_buffer, buildings, runs, last, printed, written, flushed,
                 variables0, lex>>

Next ==
  \/ \E limit \in 0..MaxLimit, end_on_wrap \in BOOLEAN : RunCall(limit, end_on_wrap)
  \/ RunCycle
  \/ RunInsLimit

-----------------------------------------------------------------------------
(* run_from_options (interface.rs) and the messages of the errors (vm.rs).
   A message is the sequence of the pieces write! puts out: literal text,
   the text of a value, or a number. *)

Lit(s) == [k |-> "lit", lit |-> s, text |-> <<>>, int |-> 0]

Txt(t) == [k |-> "text", lit |-> "", text |-> t, int |-> 0]

Dec(i) == [k |-> "int", lit |-> "", text |-> <<>>, int |-> i]

(* VmError::print of an error that wraps no other *)
VmError_print_plain(err) ==
  CASE err.kind = "InvalidCast" ->
         <<Lit("Cannot cast value '"), Txt(err.value), Lit("' of type '"),
           Lit(err.from), Lit("' to type '"), Lit(err.to), Lit("'")>>
    [] err.kind = "InvalidBuildingType" ->
         <<Lit("Cannot "), Lit(err.action), Lit(" building '"), Lit(err.name), Lit("'")>>
    [] err.kind = "VariableNotFound" ->
         <<Lit("Variable not found: '"), Txt(err.text), Lit("'")>>
    [] err.kind = "ConstantMutation" ->
         <<Lit("Cannot mutate constant variable '"), Lit(err.name), Lit("'")>>
    [] err.kind = "EmptyCode" -> <<Lit("Program is empty")>>
    [] err.kind = "CodeTooLong" ->
         <<Lit("Program has too many instructions ("), Dec(err.len), Lit(" > "),
           Dec(err.limit), Lit(")")>>
    [] err.kind = "InvalidCharacter" ->
         <<Lit("Invalid UTF-16 character: "), Dec(err.ch)>>
    [] err.kind = "NegativeIndex" ->
         <<Lit("Negative index ("), Dec(err.idx), Lit(") for "), Lit(err.device)>>
    [] err.kind = "IndexTooHigh" ->
         <<Lit("Index out of range ("), Dec(err.idx), Lit(" >= "), Dec(err.limit),
           Lit(") for "), Lit(err.device)>>
    [] err.kind = "InvalidFormat" -> <<Lit("Invalid format - "), Lit(err.msg)>>
    [] err.kind = "InvalidOperation" ->
         <<Lit("Invalid operation: '"), Lit(err.op), Lit("'")>>
    [] err.kind = "DivisionByZero" -> <<Lit("Division by zero")>>

(* VmError::print *)
VmError_print(err) ==
  IF err.kind = "PcResError" THEN VmError_print_plain(err.inner)
  ELSE VmError_print_plain(err)

(* impl Display for VmError *)
VmError_to_string(err) ==
  (IF err.kind = "PcResError"
   THEN <<Lit("Error during program counter resolution: ")>>
   ELSE <<Lit("Error: ")>>) \o VmError_print(err)

(* impl Display for PosVmError *)
PosVmError_to_string(e) ==
  IF e.pos # NoPos
  THEN <<Lit("Error at instruction "), Dec(e.pos), Lit(": ")>> \o VmError_print(e.err)
  ELSE VmError_to_string(e.err)

(* enum ErrorPos, as run_from_options picks it *)
ErrorPos(e) ==
  IF e.pos # NoPos THEN [kind |-> "Instruction", pos |-> e.pos]
  ELSE IF e.err.kind = "PcResError" THEN [kind |-> "PcFetch", pos |-> NoPos]
  ELSE [kind |-> "None", pos |-> NoPos]

(* The getter Device::construct returns: DeviceState of the building *)
DeviceState(b) ==
  IF b.kind = "Message" THEN [kind |-> "Message", text |-> b.text, data |-> <<>>]
  ELSE [kind |-> "Memory", text |-> <<>>, data |-> b.data]

(* The HashMap the getters are collected into: one entry per name *)
DeviceStates(bs) ==
  [n \in {bs[k].name : k \in DOMAIN bs} |->
     DeviceState(bs[CHOOSE k \in DOMAIN bs : bs[k].name = n])]

NoOutput == [kind |-> "none"]

(* What run_from_options returns, once the call of VM::run it makes (the
   first on the machine) has returned; an abort where VM::new(..).unwrap()
   panics on an error of the construction *)
Output ==
  IF new_result.kind # "Ok" THEN [kind |-> "abort", cause |-> new_result]
  ELSE IF runs # 1 \/ run.state # "returned" THEN NoOutput
  ELSE IF run.result = "Err"
  THEN [kind |-> "Failure", pos |-> ErrorPos(run.err), msg |-> PosVmError_to_string(run.err)]
  ELSE [kind |-> "Success", finish_reason |-> run.result,
        devices |-> DeviceStates(buildings), print_buffer |-> print_buffer]

-----------------------------------------------------------------------------
(* Programs.  Every specification draws its source from the lines of one
   alphabet, up to MaxCodeLen lines. *)

SeqsUpTo(A, n) == UNION {[1..k -> A] : k \in 1..n}

N(k) == NumTok("", F(2 * k))

Line_stop == <<Id("stop")>>
Line_end == <<Id("end")>>

(* Control flow: the program counter, jumps, halting and a failing line *)
ControlLines ==
  { Line_stop,
    Line_end,
    <<Id("set"), Id("x"), N(1)>>,
    <<Id("set"), Id("@counter"), N(5)>>,
    <<Id("set"), Id("@counter"), N(1)>>,
    <<Id("set"), Id("@counter"), N(-1)>>,
    <<Id("jump"), N(0), Id("always"), Id("_"), Id("_")>>,
    <<Id("jump"), N(1), Id("equal"), Id("x"), N(1)>>,
    <<Id("wait"), Id("x")>> }

Init == InitWith(SeqsUpTo(ControlLines, MaxCodeLen), {DEFAULT_CODE_LEN_LIMIT})

Spec == Init /\ [][Next]_vars

(* Printing: literals, a number, a code unit, flushes into a display, into a
   memory cell and into a variable that holds no building *)
PrintLines ==
  { <<Id("print"), StrTok("", <<97>>)>>,
    <<Id("print"), NumTok("", F(3))>>,
    <<Id("printchar"), N(98)>>,
    <<Id("printflush"), Id("m1")>>,
    <<Id("printflush"), Id("c1")>>,
    <<Id("printflush"), Id("x")>> }

InitPrint == InitWith(SeqsUpTo(PrintLines, MaxCodeLen), {DEFAULT_CODE_LEN_LIMIT})

SpecPrint == InitPrint /\ [][Next]_vars

(* Writes to constants and to the two mutable builtins, by every instruction
   that has a destination and through the processor's own building *)
ConstLines ==
  { <<Id("set"), Id("@this"), N(1)>>,
    <<Id("set"), Id("@unit"), N(1)>>,
    <<Id("op"), Id("add"), Id("@time"), N(1), N(1)>>,
    <<Id("op"), Id("add"), Id("true"), Id("null"), N(1)>>,
    <<Id("read"), Id("m1"), Id("c1"), N(0)>>,
    <<Id("getlink"), Id("@links"), N(0)>>,
    <<Id("getlink"), Id("false"), N(7)>>,
    <<Id("sensor"), Id("@size"), N(1), Id("@size")>>,
    <<Id("write"), N(1), Id("@this"), StrTok("", <<99, 49>>)>>,
    <<Id("write"), N(1), Id("@this"), StrTok("", <<64, 117, 110, 105, 116>>)>> }

InitConst == InitWith(SeqsUpTo(ConstLines, MaxCodeLen), {DEFAULT_CODE_LEN_LIMIT})

SpecConst == InitConst /\ [][Next]_vars

(* Memory: writes of an integer and of a fraction, reads, an index beyond
   the capacity and a value that is no number *)
MemLines ==
  { <<Id("write"), N(7), Id("c1"), N(0)>>,
    <<Id("write"), NumTok("", F(3)), Id("c1"), N(1)>>,
    <<Id("write"), Id("x"), Id("c1"), N(1)>>,
    <<Id("write"), N(1), Id("c1"), N(MemCapacity)>>,
    <<Id("read"), Id("x"), Id("c1"), N(0)>>,
    <<Id("read"), Id("x"), Id("c1"), N(1)>>,
    <<Id("read"), Id("y"), Id("c1"), N(MemCapacity)>> }

InitMem == InitWith(SeqsUpTo(MemLines, MaxCodeLen), {DEFAULT_CODE_LEN_LIMIT})

SpecMem == InitMem /\ [][Next]_vars

(* The processor's own building: reads and writes of variables by name, of a
   name in the store, of one that may be, and of one that never is *)
ThisLines ==
  { <<Id("set"), Id("x"), N(2)>>,
    <<Id("write"), N(1), Id("@this"), StrTok("", <<120>>)>>,
    <<Id("write"), N(1), Id("@this"), StrTok("", <<122, 122>>)>>,
    <<Id("write"), N(0), Id("@this"), StrTok("", <<64, 99, 111, 117, 110, 116, 101, 114>>)>>,
    <<Id("read"), Id("y"), Id("@this"), StrTok("", <<120>>)>>,
    <<Id("read"), Id("y"), Id("@this"), StrTok("", <<122, 122>>)>>,
    <<Id("read"), Id("x"), Id("@this"), StrTok("", <<64, 105, 112, 116>>)>> }

InitThis == InitWith(SeqsUpTo(ThisLines, MaxCodeLen), {DEFAULT_CODE_LEN_LIMIT})

SpecThis == InitThis /\ [][Next]_vars

(* Division: by zero, of zero by zero, exact, of integers, and of a value
   that is no number *)
DivLines ==
  { <<Id("set"), Id("q"), N(5)>>,
    <<Id("op"), Id("div"), Id("q"), N(1), N(0)>>,
    <<Id("op"), Id("div"), Id("q"), N(0), N(0)>>,
    <<Id("op"), Id("div"), Id("q"), N(-3), N(2)>>,
    <<Id("op"), Id("div"), Id("q"), Id("q"), N(0)>>,
    <<Id("op"), Id("idiv"), Id("q"), N(7), N(2)>>,
    <<Id("op"), Id("idiv"), Id("q"), N(1), N(0)>>,
    <<Id("op"), Id("div"), Id("q"), Id("x"), N(0)>> }

InitDiv == InitWith(SeqsUpTo(DivLines, MaxCodeLen), {DEFAULT_CODE_LEN_LIMIT})

SpecDiv == InitDiv /\ [][Next]_vars

(* Strings: a literal kept in a variable, its code units taken by read and
   by sensor, and comparisons of the variable with a second literal of the
   same text.  A comparison after a materialisation takes three lines. *)
StrLines ==
  { <<Id("set"), Id("x"), StrTok("", <<97, 98>>)>>,
    <<Id("read"), Id("v"), Id("x"), N(0)>>,
    <<Id("sensor"), Id("v"), Id("x"), Id("@size")>>,
    <<Id("op"), Id("equal"), Id("q"), Id("x"), StrTok("", <<97, 98>>)>>,
    <<Id("op"), Id("notEqual"), Id("q"), StrTok("", <<97, 98>>), Id("x")>>,
    <<Id("jump"), N(0), Id("strictEqual"), Id("x"), StrTok("", <<97, 98>>)>> }

InitStr == InitWith(SeqsUpTo(StrLines, MaxCodeLen + 1), {DEFAULT_CODE_LEN_LIMIT})

SpecStr == InitStr /\ [][Next]_vars

(* The program counter: stores of a negative integer, a fraction, a string
   and null into @counter, next to lines that change a variable and the
   print buffer *)
PcLines ==
  { <<Id("set"), Id("@counter"), N(-1)>>,
    <<Id("set"), Id("@counter"), NumTok("", F(3))>>,
    <<Id("set"), Id("@counter"), StrTok("", <<120>>)>>,
    <<Id("set"), Id("@counter"), Id("y")>>,
    <<Id("set"), Id("x"), N(1)>>,
    <<Id("print"), StrTok("", <<97>>)>> }

InitPc == InitWith(SeqsUpTo(PcLines, MaxCodeLen), {DEFAULT_CODE_LEN_LIMIT})

SpecPc == InitPc /\ [][Next]_vars

(* Numbering: lines without fields between a jump, a line that changes a
   variable, a line that prints and a line that fails on the display *)
NumLines ==
  { <<>>,
    <<Id("jump"), N(1), Id("always"), Id("_"), Id("_")>>,
    <<Id("set"), Id("x"), N(1)>>,
    <<Id("print"), StrTok("", <<97>>)>>,
    <<Id("write"), N(1), Id("m1"), N(0)>> }

InitNum == InitWith(SeqsUpTo(NumLines, MaxCodeLen + 1), {DEFAULT_CODE_LEN_LIMIT})

SpecNum == InitNum /\ [][Next]_vars

(* Comparisons and logical operators: on numbers, on NaN (0 / 0), on a
   fraction, on a string and on a variable that may be unset *)
BoolLines ==
  { <<Id("op"), Id("div"), Id("n"), N(0), N(0)>>,
    <<Id("op"), Id("lessThan"), Id("r"), Id("n"), N(1)>>,
    <<Id("op"), Id("lessThanEq"), Id("r"), N(2), N(2)>>,
    <<Id("op"), Id("greaterThan"), Id("r"), N(2), NumTok("", F(3))>>,
    <<Id("op"), Id("greaterThanEq"), Id("r"), N(1), N(2)>>,
    <<Id("op"), Id("equal"), Id("r"), Id("n"), Id("n")>>,
    <<Id("op"), Id("strictEqual"), Id("r"), StrTok("", <<97>>), N(1)>>,
    <<Id("op"), Id("notEqual"), Id("r"), Id("n"), N(2)>>,
    <<Id("op"), Id("not"), Id("r"), Id("n"), N(0)>>,
    <<Id("op"), Id("not"), Id("r"), NumTok("", F(3)), N(0)>>,
    <<Id("op"), Id("not"), Id("r"), N(0), N(0)>>,
    <<Id("op"), Id("land"), Id("r"), Id("n"), NumTok("", F(3))>>,
    <<Id("op"), Id("land"), Id("r"), N(2), NumTok("", F(3))>>,
    <<Id("op"), Id("lessThan"), Id("r"), StrTok("", <<97>>), N(1)>> }

InitBool == InitWith(SeqsUpTo(BoolLines, MaxCodeLen), {DEFAULT_CODE_LEN_LIMIT})

SpecBool == InitBool /\ [][Next]_vars

(* Jump targets: a string, an unset variable, a device and a number, on
   conditions that hold and that do not *)
JumpLines ==
  { <<Id("jump"), StrTok("", <<120>>), Id("always"), Id("_"), Id("_")>>,
    <<Id("jump"), StrTok("", <<120>>), Id("notEqual"), N(1), N(2)>>,
    <<Id("jump"), StrTok("", <<120>>), Id("equal"), N(1), N(2)>>,
    <<Id("jump"), Id("y"), Id("lessThan"), N(1), N(2)>>,
    <<Id("jump"), Id("m1"), Id("always"), Id("_"), Id("_")>>,
    <<Id("jump"), N(0), Id("always"), Id("_"), Id("_")>>,
    <<Id("set"), Id("y"), N(1)>> }

InitJump == InitWith(SeqsUpTo(JumpLines, MaxCodeLen), {DEFAULT_CODE_LEN_LIMIT})

SpecJump == InitJump /\ [][Next]_vars

(* Equality: null and 0, a string and a number, two devices, two numbers
   and two literals of one text, under op and under jump *)
EqLines ==
  { <<Id("op"), Id("equal"), Id("q"), Id("y"), N(0)>>,
    <<Id("op"), Id("strictEqual"), Id("q"), StrTok("", <<49>>), N(1)>>,
    <<Id("op"), Id("notEqual"), Id("q"), Id("y"), N(0)>>,
    <<Id("op"), Id("equal"), Id("q"), Id("m1"), Id("c1")>>,
    <<Id("op"), Id("notEqual"), Id("q"), Id("m1"), Id("m1")>>,
    <<Id("op"), Id("strictEqual"), Id("q"), N(1), N(1)>>,
    <<Id("op"), Id("equal"), Id("q"), StrTok("", <<97, 98>>), StrTok("", <<97, 98>>)>>,
    <<Id("jump"), N(0), Id("equal"), Id("y"), N(0)>>,
    <<Id("jump"), N(0), Id("notEqual"), Id("m1"), Id("c1")>>,
    <<Id("jump"), N(0), Id("strictEqual"), StrTok("", <<49>>), N(1)>>,
    <<Id("set"), Id("y"), N(0)>> }

InitEq == InitWith(SeqsUpTo(EqLines, MaxCodeLen), {DEFAULT_CODE_LEN_LIMIT})

SpecEq == InitEq /\ [][Next]_vars

(* The processor as a device: reads and writes on @this that name a
   variable, @counter, a constant, a name the store does not have, and a
   value that is no string *)
MirrorLines ==
  { <<Id("set"), Id("x"), N(2)>>,
    <<Id("write"), N(1), Id("@this"), StrTok("", <<120>>)>>,
    <<Id("write"), N(0), Id("@this"), StrTok("", <<64, 99, 111, 117, 110, 116, 101, 114>>)>>,
    <<Id("write"), N(1), Id("@this"), StrTok("", <<64, 105, 112, 116>>)>>,
    <<Id("write"), N(1), Id("@this"), StrTok("", <<122, 122>>)>>,
    <<Id("write"), N(1), Id("@this"), N(5)>>,
    <<Id("read"), Id("y"), Id("@this"), StrTok("", <<120>>)>>,
    <<Id("read"), Id("y"), Id("@this"), StrTok("", <<64, 99, 111, 117, 110, 116, 101, 114>>)>>,
    <<Id("read"), Id("y"), Id("@this"), StrTok("", <<122, 122>>)>>,
    <<Id("read"), Id("y"), Id("@this"), Id("x")>> }

InitMirror == InitWith(SeqsUpTo(MirrorLines, MaxCodeLen), {DEFAULT_CODE_LEN_LIMIT})

SpecMirror == InitMirror /\ [][Next]_vars

(* Integer division: of integers of both signs, of fractions, by zero, by
   a fraction below 1, and with the negative infinity (-1 / 0) as dividend
   and as divisor *)
IdivLines ==
  { <<Id("op"), Id("div"), Id("m"), N(-1), N(0)>>,
    <<Id("op"), Id("idiv"), Id("m"), Id("m"), N(-1)>>,
    <<Id("op"), Id("idiv"), Id("q"), N(7), Id("m")>>,
    <<Id("op"), Id("idiv"), Id("q"), N(7), N(2)>>,
    <<Id("op"), Id("idiv"), Id("q"), N(-7), N(2)>>,
    <<Id("op"), Id("idiv"), Id("q"), NumTok("", F(15)), NumTok("", F(5))>>,
    <<Id("op"), Id("idiv"), Id("q"), N(1), N(0)>>,
    <<Id("op"), Id("idiv"), Id("q"), N(1), NumTok("", F(1))>>,
    <<Id("set"), Id("q"), N(5)>> }

InitIdiv == InitWith(SeqsUpTo(IdivLines, MaxCodeLen), {DEFAULT_CODE_LEN_LIMIT})

SpecIdiv == InitIdiv /\ [][Next]_vars

(* Capabilities: every instruction on a device, on the display m1, the
   memory cell c1 and the processor @this, next to prints *)
CapLines ==
  { <<Id("print"), StrTok("", <<97>>)>>,
    <<Id("printchar"), N(98)>>,
    <<Id("printflush"), Id("m1")>>,
    <<Id("printflush"), Id("c1")>>,
    <<Id("printflush"), Id("@this")>>,
    <<Id("read"), Id("v"), Id("m1"), N(0)>>,
    <<Id("write"), N(1), Id("m1"), N(0)>>,
    <<Id("sensor"), Id("v"), Id("m1"), Id("@size")>>,
    <<Id("sensor"), Id("v"), Id("@this"), Id("@size")>> }

InitCap == InitWith(SeqsUpTo(CapLines, MaxCodeLen), {DEFAULT_CODE_LEN_LIMIT})

SpecCap == InitCap /\ [][Next]_vars

(* Writes into the memory cell: in range, below and beyond it, at a
   fraction and at a string, of numbers and of an unset variable *)
WriteLines ==
  { <<Id("write"), N(7), Id("c1"), N(0)>>,
    <<Id("write"), NumTok("", F(3)), Id("c1"), N(1)>>,
    <<Id("write"), Id("x"), Id("c1"), N(1)>>,
    <<Id("write"), N(1), Id("c1"), N(-1)>>,
    <<Id("write"), N(1), Id("c1"), N(MemCapacity)>>,
    <<Id("write"), N(1), Id("c1"), NumTok("", F(3))>>,
    <<Id("write"), N(1), Id("c1"), StrTok("", <<97>>)>>,
    <<Id("write"), Id("x"), Id("c1"), N(-1)>>,
    <<Id("set"), Id("x"), N(3)>> }

InitWrite == InitWith(SeqsUpTo(WriteLines, MaxCodeLen), {DEFAULT_CODE_LEN_LIMIT})

SpecWrite == InitWrite /\ [][Next]_vars

(* Code units: a string with a character above the BMP kept in a variable
   and a literal, read in range and beyond it, sensed for their size, and
   printed *)
LazyLines ==
  { <<Id("set"), Id("x"), StrTok("", <<97, 119070>>)>>,
    <<Id("read"), Id("v"), Id("x"), N(1)>>,
    <<Id("read"), Id("v"), Id("x"), N(3)>>,
    <<Id("read"), Id("v"), StrTok("", <<97, 98>>), N(1)>>,
    <<Id("sensor"), Id("v"), Id("x"), Id("@size")>>,
    <<Id("sensor"), Id("v"), StrTok("", <<97, 98>>), Id("@size")>>,
    <<Id("print"), Id("x")>> }

InitLazy == InitWith(SeqsUpTo(LazyLines, MaxCodeLen), {DEFAULT_CODE_LEN_LIMIT})

SpecLazy == InitLazy /\ [][Next]_vars

(* Comparators: a jump on a comparator the executor does not know, on two
   numbers, on a variable that may be unset and on a string, after a stop
   and before one *)
CmpLines ==
  { <<Id("jump"), N(0), Id("foo"), N(1), N(2)>>,
    <<Id("jump"), N(0), Id("foo"), Id("x"), N(2)>>,
    <<Id("jump"), N(0), Id("foo"), N(1), StrTok("", <<97>>)>>,
    <<Id("jump"), N(1), Id("lessThan"), N(1), N(2)>>,
    <<Id("set"), Id("x"), N(1)>>,
    Line_stop }

InitCmp == InitWith(SeqsUpTo(CmpLines, MaxCodeLen), {DEFAULT_CODE_LEN_LIMIT})

SpecCmp == InitCmp /\ [][Next]_vars

(* Characters: printchar of a letter, of a code above 2^16, of a negative
   one, of the two ends of the surrogates, of a fraction, of a string and of
   a variable that may be unset, and a flush into the message *)
CharLines ==
  { <<Id("printchar"), N(65)>>,
    <<Id("printchar"), N(65601)>>,
    <<Id("printchar"), N(-1)>>,
    <<Id("printchar"), N(55296)>>,
    <<Id("printchar"), N(57343)>>,
    <<Id("printchar"), NumTok("", F(3))>>,
    <<Id("printchar"), StrTok("", <<97>>)>>,
    <<Id("printchar"), Id("x")>>,
    <<Id("set"), Id("x"), N(66)>> }

InitChar == InitWith(SeqsUpTo(CharLines, MaxCodeLen), {DEFAULT_CODE_LEN_LIMIT})

SpecChar == InitChar /\ [][Next]_vars

(* Straight lines: prints, a code unit and an assignment, which run off the
   last instruction, beside a stop, a jump and an assignment to @counter *)
WrapLines ==
  { <<Id("print"), StrTok("", <<97>>)>>,
    <<Id("print"), StrTok("", <<98>>)>>,
    <<Id("printchar"), N(99)>>,
    <<Id("set"), Id("x"), N(1)>>,
    <<Id("set"), Id("@counter"), N(0)>>,
    <<Id("jump"), N(0), Id("always"), Id("_"), Id("_")>>,
    Line_stop }

InitWrap == InitWith(SeqsUpTo(WrapLines, MaxCodeLen), {DEFAULT_CODE_LEN_LIMIT})

SpecWrap == InitWrap /\ [][Next]_vars

(* Failures: instructions that fail on their operands, on a device and on
   a constant, each after an instruction that printed, stored or wrote *)
FailLines ==
  { <<Id("print"), StrTok("", <<97>>)>>,
    <<Id("set"), Id("v"), N(1)>>,
    <<Id("write"), N(7), Id("c1"), N(0)>>,
    <<Id("printflush"), Id("c1")>>,
    <<Id("printflush"), Id("x")>>,
    <<Id("write"), Id("v"), Id("c1"), N(-1)>>,
    <<Id("read"), Id("v"), Id("c1"), N(MemCapacity)>>,
    <<Id("op"), Id("idiv"), Id("v"), N(1), N(0)>>,
    <<Id("printchar"), N(55296)>>,
    <<Id("set"), Id("@this"), N(1)>> }

InitFail == InitWith(SeqsUpTo(FailLines, MaxCodeLen), {DEFAULT_CODE_LEN_LIMIT})

SpecFail == InitFail /\ [][Next]_vars

(* Counters: a number far beyond the program, a negative one, a fraction,
   a string and null stored in @counter by set, by jump and through @this,
   next to a line that prints *)
CounterLines ==
  { <<Id("set"), Id("@counter"), N(1000000)>>,
    <<Id("set"), Id("@counter"), N(-1)>>,
    <<Id("set"), Id("@counter"), NumTok("", F(3))>>,
    <<Id("jump"), N(7), Id("always"), Id("_"), Id("_")>>,
    <<Id("jump"), StrTok("", <<120>>), Id("always"), Id("_"), Id("_")>>,
    <<Id("write"), N(9), Id("@this"), StrTok("", <<64, 99, 111, 117, 110, 116, 101, 114>>)>>,
    <<Id("write"), Id("y"), Id("@this"), StrTok("", <<64, 99, 111, 117, 110, 116, 101, 114>>)>>,
    <<Id("set"), Id("@counter"), N(1)>>,
    <<Id("print"), StrTok("", <<97>>)>> }

InitCounter == InitWith(SeqsUpTo(CounterLines, MaxCodeLen), {DEFAULT_CODE_LEN_LIMIT})

SpecCounter == InitCounter /\ [][Next]_vars

(* The lexer: every line of up to MaxLineLen characters over a space, a
   double quote, a letter and a letter of two bytes *)
LexChars == {32, 34, 97, 233}

LexLines == {<<>>} \cup SeqsUpTo(LexChars, MaxLineLen)

InitLex ==
  /\ \E line \in LexLines : lex = split_line_start(line)
  /\ \E bs \in {ConstructedDevices} :
     \E vm \in {VM_new(<<Line_stop>>, DEFAULT_CODE_LEN_LIMIT, bs)} :
       InitFrom(vm, <<Line_stop>>, DEFAULT_CODE_LEN_LIMIT, bs)

SpecLex == InitLex /\ [][NextLex]_vars

(* Sensing: both properties of the memory cell, the size of the display, of
   a string and of null, and a store into the destination *)
SenseLines ==
  { <<Id("sensor"), Id("v"), Id("c1"), Id("@memoryCapacity")>>,
    <<Id("sensor"), Id("v"), Id("c1"), Id("@size")>>,
    <<Id("sensor"), Id("v"), Id("m1"), Id("@size")>>,
    <<Id("sensor"), Id("v"), Id("x"), Id("@size")>>,
    <<Id("set"), Id("x"), StrTok("", <<97, 98>>)>>,
    <<Id("set"), Id("v"), N(5)>> }

InitSense == InitWith(SeqsUpTo(SenseLines, MaxCodeLen), {DEFAULT_CODE_LEN_LIMIT})

SpecSense == InitSense /\ [][Next]_vars

(* Reads of strings: a string with a character above the BMP kept in a
   variable, reads of it at both units of the pair and one past the end,
   reads of a literal at a unit and at -1, and a store into the destination *)
ReadLines ==
  { <<Id("set"), Id("x"), StrTok("", <<97, 119070>>)>>,
    <<Id("read"), Id("v"), Id("x"), N(1)>>,
    <<Id("read"), Id("v"), Id("x"), N(2)>>,
    <<Id("read"), Id("v"), Id("x"), N(3)>>,
    <<Id("read"), Id("v"), StrTok("", <<97, 98>>), N(1)>>,
    <<Id("read"), Id("v"), StrTok("", <<97, 98>>), N(-1)>>,
    <<Id("set"), Id("v"), N(5)>> }

InitRead == InitWith(SeqsUpTo(ReadLines, MaxCodeLen), {DEFAULT_CODE_LEN_LIMIT})

SpecRead == InitRead /\ [][Next]_vars

InitRoot == InitWithRoot(SeqsUpTo(ReadLines, MaxCodeLen), {DEFAULT_CODE_LEN_LIMIT})

SpecRoot == InitRoot /\ [][Next]_vars

(* Links: getlink at every index from -1 to the number of devices and at
   @links, a store into the destination before, and a store into @links *)
LinkLines ==
  { <<Id("getlink"), Id("x"), N(-1)>>,
    <<Id("getlink"), Id("x"), N(0)>>,
    <<Id("getlink"), Id("x"), N(1)>>,
    <<Id("getlink"), Id("x"), N(2)>>,
    <<Id("getlink"), Id("x"), Id("@links")>>,
    <<Id("set"), Id("x"), N(5)>>,
    <<Id("set"), Id("@links"), N(9)>> }

InitLink == InitWith(SeqsUpTo(LinkLines, MaxCodeLen), {DEFAULT_CODE_LEN_LIMIT})

SpecLink == InitLink /\ [][Next]_vars

(* The output: prints, a flush into the display, writes into both cells,
   and a halt *)
OutLines ==
  { <<Id("print"), StrTok("", <<97>>)>>,
    <<Id("printchar"), N(98)>>,
    <<Id("printflush"), Id("m1")>>,
    <<Id("write"), N(7), Id("c1"), N(0)>>,
    <<Id("write"), NumTok("", F(3)), Id("c1"), N(1)>>,
    Line_stop }

InitOut == InitWith(SeqsUpTo(OutLines, MaxCodeLen + 1), {DEFAULT_CODE_LEN_LIMIT})

SpecOut == InitOut /\ [][Next]_vars

(* Construction: sources with lines without fields, up to one line more
   than MaxCodeLen, under every limit up to MaxCodeLen and the default *)
NewLines ==
  { <<>>,
    Line_stop,
    Line_end,
    <<Id("set"), Id("x"), N(1)>>,
    <<Id("write"), N(1), Id("c1"), N(0)>> }

NewLimits == 0 .. MaxCodeLen \cup {DEFAULT_CODE_LEN_LIMIT}

InitNew == InitWith(SeqsUpTo(NewLines, MaxCodeLen + 1), NewLimits)

SpecNew == InitNew /\ [][Next]_vars

-----------------------------------------------------------------------------
(* Properties of the control flow, checked under Spec.  In every state with
   run.i > 0 the report `last` is that of the latest cycle of the current call
   of VM::run. *)

CounterValue == HandleVal(variables, pc_handle)

LastOk == last.ran /\ last.pc # NoPos /\ last.err.err.kind = "Ok"

(* C1: termination priority.  When the cycle that executes `stop` is a wrap
   cycle and end_on_wrap is set, run returns Halt (not PcWrap); when a wrap
   cycle under end_on_wrap that does not halt is the last cycle the limit
   allows, run returns PcWrap (not InsLimit). *)
C1_TerminationPriority ==
  run.i > 0 /\ LastOk /\ last.pc_wrap /\ run.end_on_wrap =>
    /\ run.state = "returned"
    /\ last.ins.op = "stop" => run.result = "Halt"
    /\ ~last.halt /\ run.i = run.limit => run.result = "PcWrap"

(* `stop` executed in a wrap cycle with end_on_wrap set *)
C1_Witness ==
  /\ run.i > 0 /\ LastOk /\ last.pc_wrap /\ run.end_on_wrap
  /\ last.ins.op = "stop" /\ run.result = "Halt"

(* The integer @counter held before the latest cycle *)
LastP == as_int(last.before).v

(* C2 as stated: after a successful cycle whose instruction did not write
   @counter, @counter = (p mod code.len) + 1 for the integer p it held before
   the cycle. *)
C2_AsStated ==
  LastOk /\ last.wrote # pc_handle =>
    CounterValue = NumI((LastP % Len(code)) + 1)

(* C2: after a successful cycle whose instruction did not write @counter,
   @counter = p + 1 when p < code.len and 1 when p >= code.len (the counter
   is reset to 0, not reduced modulo the length). *)
C2_PcArithmetic ==
  LastOk /\ last.wrote # pc_handle =>
    CounterValue = NumI(IF LastP < Len(code) THEN LastP + 1 ELSE 1)

(* a cycle that started beyond the end, at a p that is no multiple of the
   length, ran an instruction that left @counter alone *)
C2_Witness ==
  /\ LastOk /\ last.wrote # pc_handle
  /\ LastP > Len(code) /\ LastP % Len(code) # 0
  /\ CounterValue = NumI(1)

(* A step of the model that is a call of VM::cycle *)
IsCycleStep == run.state = "running" /\ run'.i = run.i + 1

(* What the instruction of the latest cycle stored in @counter *)
LastTarget ==
  CASE last.ins.op = "set" -> as_int(last.operands[2])
    [] last.ins.op = "jump" -> as_int(last.operands[1])
    [] last.ins.op = "end" -> Ok(0)
    [] OTHER -> Fail(InvalidCast(Null, "int"))

(* C5: a write to @counter by the instruction of a cycle decides the next
   cycle.  If the instruction stored an integer t with 0 <= t < code.len (a
   taken jump, end, set @counter t) the next cycle executes instruction t
   without a wrap; a jump not taken leaves @counter at pc + 1 and the next
   cycle executes the following instruction. *)
C5_CounterWrite ==
  [][IsCycleStep /\ LastOk =>
       /\ (last.wrote = pc_handle /\ IsOk(LastTarget)
              /\ LastTarget.v \in 0..(Len(code) - 1)) =>
            /\ last'.pc = LastTarget.v
            /\ last'.ins = code[LastTarget.v + 1]
            /\ ~last'.pc_wrap
       /\ (last.ins.op = "jump" /\ last.wrote = None
              /\ last.pc + 1 < Len(code)) =>
            /\ CounterValue = NumI(last.pc + 1)
            /\ last'.pc = last.pc + 1
            /\ last'.ins = code[last.pc + 2]]_vars

(* the second cycle of the first run executed instruction 0 again, without a
   wrap, in a program of two lines: the first cycle stored 0 in @counter *)
C5_Witness ==
  /\ runs = 1 /\ run.i = 2 /\ Len(code) = 2
  /\ LastOk /\ last.pc = 0 /\ ~last.pc_wrap /\ last.before = NumI(0)

(* C8: wrap handling.  A cycle that starts with @counter >= code.len executes
   instruction 0 and reports pc_wrap; any other cycle that executes reports
   no wrap and executes the instruction at @counter.  Without end_on_wrap run
   never returns PcWrap and goes on after a wrap; with end_on_wrap it returns
   PcWrap at the first wrap cycle that neither halts nor fails. *)
C8_WrapHandling ==
  /\ last.ran /\ last.pc # NoPos =>
        /\ last.pc_wrap <=> LastP >= Len(code)
        /\ last.pc = (IF LastP >= Len(code) THEN 0 ELSE LastP)
        /\ last.ins = code[last.pc + 1]
  /\ ~run.end_on_wrap => run.result # "PcWrap"
  /\ run.i > 0 /\ LastOk /\ last.pc_wrap /\ ~last.halt =>
        IF run.end_on_wrap THEN run.state = "returned" /\ run.result = "PcWrap"
        ELSE run.state = "running" \/ run.result = "InsLimit"

(* a run without end_on_wrap that goes on after a wrap cycle which started
   beyond the end of the program *)
C8_Witness ==
  /\ run.i > 0 /\ LastOk /\ last.pc_wrap /\ ~last.halt /\ LastP > Len(code)
  /\ last.pc = 0 /\ ~run.end_on_wrap /\ run.state = "running" /\ LoopContinues(run)

(* C9: bounded execution.  A call of run with limit L performs at most L
   cycles; it has returned InsLimit exactly when L cycles completed and none
   of them halted, failed or was a wrap cycle under end_on_wrap; with L = 0
   it returns InsLimit and no variable, device or the print buffer changes. *)
C9_BoundedExecution ==
  /\ [](/\ run.i <= run.limit
        /\ run.state = "returned" =>
              (run.result = "InsLimit" <=>
                 /\ run.i = run.limit
                 /\ run.i > 0 => /\ LastOk
                                 /\ ~last.halt
                                 /\ ~(last.pc_wrap /\ run.end_on_wrap)))
  /\ [][run.state = "running" /\ run.limit = 0 =>
          /\ run'.state = "returned" /\ run'.result = "InsLimit" /\ run'.i = 0
          /\ UNCHANGED <<variables, by_name, utf_16, code, print_buffer,
                          buildings>>]_vars

(* a run that used up a limit of two cycles on a program that sets x *)
C9_Witness ==
  /\ run.state = "returned" /\ run.result = "InsLimit"
  /\ run.limit = 2 /\ run.i = 2 /\ last.ins.op = "set"

(* C10: error position.  An error raised by an executing instruction is
   returned with pos = the index of that instruction, 0 <= pos < code.len;
   @counter then holds pos + 1; and the call of run executes no further
   cycle. *)
C10_ErrorPosition ==
  /\ [](run.result = "Err" /\ last.pc # NoPos =>
          /\ run.state = "returned"
          /\ run.err = last.err
          /\ run.err.pos = last.pc
          /\ run.err.pos \in 0..(Len(code) - 1)
          /\ CounterValue = NumI(run.err.pos + 1))
  /\ [][run.result = "Err" =>
          \/ run'.i = 0 /\ runs' = runs + 1
          \/ UNCHANGED <<variables, utf_16, print_buffer, buildings, last, run>>]_vars

(* the second line of a program failed *)
C10_Witness ==
  /\ run.result = "Err" /\ last.pc = 1 /\ run.err.pos = 1
  /\ run.err.err.kind # "Ok" /\ CounterValue = NumI(2)

-----------------------------------------------------------------------------
(* Properties of printing, checked under SpecPrint *)

(* The position in `buildings` of the building the first operand of the
   instruction of the latest cycle names *)
LastDevice == BuildingIndex(buildings, last.operands[1].name)

(* C3: print-buffer round trip.  Right after a successful printflush into a
   message display, the text of the display is the concatenation, in order,
   of what print and printchar put out since the buffer was last taken (or
   since construction), whatever the display showed before, and the print
   buffer is empty. *)
C3_PrintRoundTrip ==
  LastOk /\ last.ins.op = "printflush" =>
    /\ buildings[LastDevice].kind = "Message"
    /\ buildings[LastDevice].text = last.printed
    /\ print_buffer = <<>>
    /\ printed = <<>>

(* a flush of the outputs of two instructions into a display that showed a
   text before *)
C3_Witness ==
  /\ LastOk /\ last.ins.op = "printflush"
  /\ last.devices[LastDevice].text # <<>>
  /\ Len(last.printed) >= 2
  /\ buildings[LastDevice].text = last.printed

-----------------------------------------------------------------------------
(* Properties of the constants, checked under SpecConst *)

(* The slot the instruction of the latest cycle has as its destination: the
   out argument of set, op, read, getlink and sensor, and the variable a
   write into @this names; None for any other instruction *)
LastDst ==
  CASE last.ins.op \in {"set", "read", "getlink", "sensor"} -> last.ins.args[1].h
    [] last.ins.op = "op" -> last.ins.args[2].h
    [] last.ins.op = "write" /\ last.operands[2] = Building("@this")
         /\ last.operands[3].tag = "Str" ->
         get_handle_text(by_name, last.operands[3].s)
    [] OTHER -> None

(* The operands of the instruction of the latest cycle evaluate to what the
   instruction asks for, so that it gets as far as storing its result *)
LastOperandsFine ==
  CASE last.ins.op \in {"set", "write"} -> TRUE
    [] last.ins.op = "op" ->
         last.operands[3].tag = "Num" /\ last.operands[4].tag = "Num"
    [] last.ins.op = "getlink" ->
         IsOk(as_index(last.operands[2], Len(buildings), "get link"))
    [] last.ins.op = "read" ->
         /\ last.operands[2].tag = "Building"
         /\ buildings[BuildingIndex(buildings, last.operands[2].name)].kind = "Memory"
         /\ IsOk(as_index(last.operands[3], MemCapacity, "memory cell"))
    [] last.ins.op = "sensor" ->
         last.operands[3].tag = "Property" /\ last.operands[2].tag # "Building"
    [] OTHER -> FALSE

(* C4: constant immutability.  An instruction whose destination is a
   constant (a builtin other than @counter and @unit, or a variable named
   after a device), as the out argument of set, op, read, getlink or sensor
   or through a write into @this, never succeeds; when its operands let it
   get to the store it fails with ConstantMutation naming the variable; and
   every constant holds its initial value in every reachable state. *)
C4_ConstantImmutability ==
  /\ \A h \in DOMAIN variables0 :
        variables0[h].constant => variables[h] = variables0[h]
  /\ (last.ran /\ last.pc # NoPos /\ LastDst # None
         /\ variables0[LastDst + 1].constant) =>
        /\ last.err.err.kind # "Ok"
        /\ LastOperandsFine =>
              last.err.err = ConstantMutation(variables0[LastDst + 1].name)

(* a write into @this that names the device slot c1 failed *)
C4_Witness ==
  /\ last.ran /\ last.ins.op = "write" /\ LastDst # None
  /\ variables0[LastDst + 1].name = "c1" /\ variables0[LastDst + 1].constant
  /\ last.err.err = ConstantMutation("c1")
  /\ run.result = "Err"

-----------------------------------------------------------------------------
(* Properties of the memory cells, checked under SpecMem.  written[k][i + 1]
   is the value operand of the latest successful write into cell i of
   building k, Num(0) before any. *)

(* The memory building and the cell the read of the latest cycle names *)
LastReadDevice == BuildingIndex(buildings, last.operands[2].name)

LastReadIndex == as_int(last.operands[3]).v

(* C6: memory round trip.  A successful read of cell i of a memory building
   sets its destination to the number the latest successful write into cell
   i stored, and to Num(0) when cell i was never written. *)
C6_MemoryRoundTrip ==
  (LastOk /\ last.ins.op = "read" /\ last.operands[2].tag = "Building"
     /\ LastReadDevice # 0) =>
    /\ buildings[LastReadDevice].kind = "Memory"
    /\ LastReadIndex \in 0..(MemCapacity - 1)
    /\ HandleVal(variables, last.ins.args[1].h)
         = written[LastReadDevice][LastReadIndex + 1]

(* a read that returned a fraction written into cell 1 before *)
C6_Witness ==
  /\ LastOk /\ last.ins.op = "read" /\ LastReadDevice # 0
  /\ LastReadIndex = 1
  /\ written[LastReadDevice][2] = Num(F(3))
  /\ HandleVal(variables, last.ins.args[1].h) = Num(F(3))

-----------------------------------------------------------------------------
(* Properties of the variable store, checked under SpecThis *)

(* The name the string operand k of the latest instruction spells, when the
   store has it *)
LastNamed(k) == {n \in DOMAIN by_name : Spelling[n] = last.operands[k].s}

(* C7: handle stability.  In every reachable state the names map one to one
   onto the slots 0 .. len-1, every slot holds the variable of the name it
   was created for, and the store has the slots it had after construction,
   in their order: a read or write on @this with a name that is not in the
   store fails with VariableNotFound and adds nothing, and one with a name
   that is in the store addresses the slot of that name. *)
C7_HandleStability ==
  /\ Len(variables) = Len(variables0)
  /\ \A h \in DOMAIN variables : variables[h].name = variables0[h].name
  /\ DOMAIN by_name = {variables0[h].name : h \in DOMAIN variables0}
  /\ \A h \in DOMAIN variables0 : by_name[variables0[h].name] = h - 1
  /\ \A k \in DOMAIN code : \A a \in DOMAIN code[k].args :
        code[k].args[a].h # None => code[k].args[a].h \in 0..(Len(variables) - 1)
  /\ (last.ran /\ last.pc # NoPos /\ last.ins.op = "write"
         /\ last.operands[2] = Building("@this")) =>
        IF LastNamed(3) = {}
        THEN last.err.err = VariableNotFound(last.operands[3].s)
        ELSE LastOk /\ \A n \in LastNamed(3) :
               /\ last.wrote = by_name[n]
               /\ HandleVal(variables, by_name[n]) = last.operands[1]
  /\ (last.ran /\ last.pc # NoPos /\ last.ins.op = "read"
         /\ last.operands[2] = Building("@this")) =>
        IF LastNamed(3) = {}
        THEN last.err.err = VariableNotFound(last.operands[3].s)
        ELSE LastOk

(* a write into @this named a variable the store does not have *)
C7_Witness ==
  /\ last.ran /\ last.ins.op = "write" /\ last.operands[2] = Building("@this")
  /\ LastNamed(3) = {}
  /\ run.result = "Err" /\ run.err.err.kind = "VariableNotFound"
  /\ Len(variables) = Len(variables0)

-----------------------------------------------------------------------------
(* Properties of division, checked under SpecDiv *)

(* C11 as stated: a cycle that executes `op div q a b` with b = 0 fails
   with DivisionByZero at the index of the instruction, the output is a
   Failure at that instruction whose message ends with "Division by zero",
   and q is not written. *)
C11_AsStated ==
  (last.ran /\ last.pc # NoPos /\ last.ins.op = "op" /\ last.ins.args[1].s = "div"
     /\ last.operands[3].tag = "Num" /\ last.operands[4] = NumI(0)) =>
    /\ last.err = PosVmError(DivisionByZero, last.pc)
    /\ last.wrote = None
    /\ runs = 1 =>
          /\ Output.kind = "Failure"
          /\ Output.pos = [kind |-> "Instruction", pos |-> last.pc]
          /\ Output.msg[Len(Output.msg)] = Lit("Division by zero")

(* What the code does: the division of two numbers never fails; a zero
   divisor gives an infinity, or NaN for a zero dividend, which is stored
   in q *)
C11_Observed ==
  (last.ran /\ last.pc # NoPos /\ last.ins.op = "op" /\ last.ins.args[1].s = "div"
     /\ last.operands[3].tag = "Num" /\ last.operands[4] = NumI(0)) =>
    /\ LastOk
    /\ last.wrote = last.ins.args[2].h
    /\ HandleVal(variables, last.ins.args[2].h).f.cls \in {"inf", "nan"}

(* `op div q 1 0` as instruction 0 has run, the run went on and q holds
   the infinity *)
C11_Witness ==
  /\ LastOk /\ last.pc = 0 /\ last.ins.op = "op" /\ last.ins.args[1].s = "div"
  /\ last.operands[3] = NumI(1) /\ last.operands[4] = NumI(0)
  /\ HandleVal(variables, last.ins.args[2].h) = Num(Inf(1))
  /\ run.result # "Err"

-----------------------------------------------------------------------------
(* Properties of string equality, checked under SpecStr *)

(* The latest cycle compared two strings of the same text with operator o
   of instruction kind i (argument a of the instruction is the operator) *)
LastComparedSameText(i, a) ==
  /\ LastOk /\ last.ins.op = i
  /\ last.ins.args[a].s \in {"equal", "strictEqual", "notEqual"}
  /\ last.operands[3].tag = "Str" /\ last.operands[4].tag = "Str"
  /\ last.operands[3].s = last.operands[4].s

(* Both string objects of the latest comparison have the same OnceCell
   contents: both without code units, or both with the same *)
LastSameCells == utf_16[last.operands[3].ref] = utf_16[last.operands[4].ref]

(* C12 as stated: two strings of the same text compare equal under
   op equal / strictEqual (result 1), notEqual gives 0, and a jump on
   equal / strictEqual is taken, whether or not the code units of either
   have been materialised. *)
C12_AsStated ==
  /\ LastComparedSameText("op", 1) =>
        HandleVal(variables, last.ins.args[2].h)
          = Bool(last.ins.args[1].s # "notEqual")
  /\ LastComparedSameText("jump", 2) =>
        (last.wrote = pc_handle <=> last.ins.args[2].s # "notEqual")

(* What the code does: strings of the same text compare equal exactly when
   the code-unit cells of the two objects are in the same state *)
C12_Observed ==
  /\ LastComparedSameText("op", 1) =>
        HandleVal(variables, last.ins.args[2].h)
          = Bool(LastSameCells <=> last.ins.args[1].s # "notEqual")
  /\ LastComparedSameText("jump", 2) =>
        (last.wrote = pc_handle <=> (LastSameCells <=> last.ins.args[2].s # "notEqual"))

(* op equal on the variable, whose string a read materialised, and a
   literal of the same text gave 0 *)
C12_Witness ==
  /\ LastComparedSameText("op", 1) /\ last.ins.args[1].s = "equal"
  /\ utf_16[last.operands[3].ref].init /\ ~utf_16[last.operands[4].ref].init
  /\ HandleVal(variables, last.ins.args[2].h) = NumI(0)

-----------------------------------------------------------------------------
(* Properties of the fetch of the program counter, checked under SpecPc *)

(* The machine is as it was: variables, string cells, devices, buffer *)
MachineUnchanged == UNCHANGED <<variables, by_name, utf_16, print_buffer, buildings>>

(* @counter holds a negative integer *)
CounterNegative ==
  /\ CounterValue.tag = "Num" /\ CounterValue.f.cls = "fin"
  /\ CounterValue.f.n % 2 = 0 /\ CounterValue.f.n < 0

(* @counter holds no number, or a number that is no integer *)
CounterNoInteger ==
  \/ CounterValue.tag # "Num"
  \/ CounterValue.f.cls # "fin"
  \/ CounterValue.f.n % 2 = 1

(* C13: negative program counter.  A cycle that starts with a negative
   integer in @counter fails with NegativeIndex(pc, "program counter") and
   no position, executes no instruction and changes nothing; the output
   reports the position None. *)
C13_NegativeCounter ==
  /\ [][IsCycleStep /\ CounterNegative =>
          /\ run'.state = "returned" /\ run'.result = "Err"
          /\ run'.err = PosVmError(NegativeIndex(CounterValue.f.n \div 2,
                                                  "program counter"), NoPos)
          /\ last'.pc = NoPos /\ last'.ins = NoIns
          /\ MachineUnchanged
          /\ runs = 1 => Output'.kind = "Failure" /\ Output'.pos.kind = "None"]_vars

(* a run ended on a counter of -1 with text in the print buffer *)
C13_Witness ==
  /\ run.result = "Err" /\ run.err.err.kind = "NegativeIndex" /\ last.pc = NoPos
  /\ CounterValue = NumI(-1) /\ print_buffer # <<>>
  /\ Output.kind = "Failure" /\ Output.pos.kind = "None"

(* C14: PC resolution failure.  A cycle that starts with @counter holding
   no number or a number that is no integer fails with the cast error
   wrapped as PcResError and no position, executes no instruction and
   changes nothing, @counter included; the output reports PcFetch. *)
C14_PcResolution ==
  /\ [][IsCycleStep /\ CounterNoInteger =>
          /\ run'.state = "returned" /\ run'.result = "Err"
          /\ run'.err = PosVmError(
                 PcResError(InvalidCast(CounterValue,
                                        IF CounterValue.tag = "Num" THEN "int" ELSE "num")),
                 NoPos)
          /\ last'.pc = NoPos /\ last'.ins = NoIns
          /\ MachineUnchanged
          /\ runs = 1 => Output'.kind = "Failure" /\ Output'.pos.kind = "PcFetch"]_vars

(* a run ended on a counter of 1.5 *)
C14_Witness ==
  /\ run.result = "Err" /\ run.err.err.kind = "PcResError" /\ last.pc = NoPos
  /\ CounterValue = Num(F(3))
  /\ Output.kind = "Failure" /\ Output.pos.kind = "PcFetch"

-----------------------------------------------------------------------------
(* Properties of the construction, checked under SpecNew *)

(* The lines of the source that have at least one field *)
NonEmptyLines == SelectSeq(options.code, LAMBDA ln : ln # <<>>)

(* The devices are as Device::construct made them *)
DevicesFresh == buildings = ConstructedDevices

(* C15: construction errors.  VM::new returns EmptyCode exactly when no
   line of the source has a field; otherwise it returns CodeTooLong(len,
   limit) exactly when the number len of parsed instructions exceeds the
   limit (len = limit is accepted); after either error no cycle is
   executed and no device is changed. *)
C15_ConstructionErrors ==
  /\ new_result.kind # "panic"
  /\ new_result = EmptyCode <=> NonEmptyLines = <<>>
  /\ NonEmptyLines # <<>> =>
        /\ Len(code) = Len(NonEmptyLines)
        /\ new_result = CodeTooLong(Len(code), options.code_len_limit)
              <=> Len(code) > options.code_len_limit
        /\ new_result = NoErr <=> Len(code) <= options.code_len_limit
  /\ new_result # NoErr =>
        /\ runs = 0 /\ run = Idle /\ last = NoCycle
        /\ DevicesFresh /\ print_buffer = <<>>

(* a source of two instructions and a line without fields is refused under
   the limit 1 *)
C15_Witness ==
  /\ Len(options.code) = 3 /\ Len(NonEmptyLines) = 2
  /\ options.code_len_limit = 1 /\ new_result = CodeTooLong(2, 1)
  /\ runs = 0

(* The construction failed with one of the two errors VM::new returns *)
ConstructionFailed == new_result.kind \in {"EmptyCode", "CodeTooLong"}

(* C16, as stated: a construction failure (EmptyCode, CodeTooLong) is
   returned by run_from_options as a Failure with pos None and the message
   of the error, not as an abort of the caller. *)
C16_AsStated ==
  ConstructionFailed =>
    /\ Output.kind = "Failure"
    /\ Output.pos.kind = "None"
    /\ Output.msg = VmError_to_string(new_result)

(* C16, as the code behaves: run_from_options unwraps the result of VM::new,
   so a construction failure aborts the caller with that error and no
   Output is returned; only a constructed machine leads to an Output. *)
C16_Observed ==
  /\ ConstructionFailed => Output = [kind |-> "abort", cause |-> new_result]
  /\ new_result = NoErr => Output.kind # "abort"

(* the source of one line without fields aborts with EmptyCode, under the
   default limit *)
C16_Witness ==
  /\ options.code = << <<>> >> /\ options.code_len_limit = DEFAULT_CODE_LEN_LIMIT
  /\ new_result = EmptyCode /\ Output.kind = "abort"

-----------------------------------------------------------------------------
(* Properties of the output, checked under SpecOut *)

(* The names of the declared devices *)
DeviceNames == {Devices[k].name : k \in DOMAIN Devices}

(* C17: success output snapshot.  When run finishes with Halt, PcWrap or
   InsLimit the output is a Success with exactly one devices entry per
   declared device name; the entry of a display holds the text of the last
   successful printflush into it (empty if there was none), the entry of a
   memory cell holds for each cell the last value written (0 if none), and
   print_buffer holds exactly what was printed since the last printflush. *)
C17_SuccessSnapshot ==
  runs = 1 /\ run.state = "returned" /\ run.result \in {"Halt", "PcWrap", "InsLimit"} =>
    /\ Output.kind = "Success"
    /\ Output.finish_reason = run.result
    /\ DOMAIN Output.devices = DeviceNames
    /\ \A k \in DOMAIN Devices :
          IF Devices[k].kind = "Message"
          THEN /\ Output.devices[Devices[k].name].kind = "Message"
               /\ Output.devices[Devices[k].name].text = flushed[k]
          ELSE /\ Output.devices[Devices[k].name].kind = "Memory"
               /\ Len(Output.devices[Devices[k].name].data) = Devices[k].capacity
               /\ \A j \in 1 .. Devices[k].capacity :
                     Num(Output.devices[Devices[k].name].data[j]) = written[k][j]
    /\ Output.print_buffer = printed

(* a run of print, printflush that ended on the wrap: the display shows the
   first print, the buffer holds the print of the cycle that wrapped, and
   the memory cell, never written, holds zeros *)
C17_Witness ==
  /\ Output.kind = "Success" /\ Output.finish_reason = "PcWrap"
  /\ Output.devices["m1"].text = <<97>>
  /\ Output.print_buffer = <<97>>
  /\ Output.devices["c1"].data = <<F(0), F(0)>>
  /\ Len(code) = 2

-----------------------------------------------------------------------------
(* Properties of the links, checked under SpecLink *)

(* The number of declared devices *)
LinkCount == Len(Devices)

(* The value of the variable of a name *)
NamedVal(vs, bn, name) == HandleVal(vs, get_handle(bn, name))

(* What a getlink with the integer index i did in the step: bound the
   destination dst to the device i of the declared order, or failed at the
   position pos and left the destination as it was *)
GetLinkLaw(i, dst, pos) ==
  IF i < 0
  THEN /\ run'.result = "Err"
       /\ run'.err = PosVmError(NegativeIndex(i, "get link"), pos)
       /\ HandleVal(variables', dst) = HandleVal(variables, dst)
  ELSE IF i >= LinkCount
  THEN /\ run'.result = "Err"
       /\ run'.err = PosVmError(IndexTooHigh(i, LinkCount, "get link"), pos)
       /\ HandleVal(variables', dst) = HandleVal(variables, dst)
  ELSE /\ run'.result # "Err"
       /\ HandleVal(variables', dst) = Building(Devices[i + 1].name)
       /\ HandleVal(variables', dst) = NamedVal(variables', by_name', Devices[i + 1].name)

(* C18: getlink and @links.  With N declared devices @links holds N for the
   whole run; `getlink dst i` with an integer 0 <= i < N binds dst to the
   i-th device of the declared order, which is the value of the constant
   variable named after that device; with i >= N it fails
   IndexTooHigh(i, N, "get link"), with i < 0 it fails NegativeIndex, and
   dst is left unchanged. *)
C18_GetLink ==
  /\ [](new_result = NoErr => NamedVal(variables, by_name, "@links") = NumI(LinkCount))
  /\ [][IsCycleStep /\ last'.pc # NoPos /\ last'.ins.op = "getlink"
          /\ IsOk(as_int(last'.operands[2])) =>
            GetLinkLaw(last'.operands[2].f.n \div 2, last'.ins.args[1].h, last'.pc)]_vars

(* getlink at the index N failed and left the 5 stored before in x *)
C18_Witness ==
  /\ run.result = "Err" /\ run.err = PosVmError(IndexTooHigh(2, 2, "get link"), 1)
  /\ last.ins.op = "getlink"
  /\ NamedVal(variables, by_name, "x") = NumI(5)

-----------------------------------------------------------------------------
(* Properties of read on strings, checked under SpecRead (the parser of the
   emulator crate) and SpecRoot (the parser of the root crate) *)

(* The source line of the instruction at a position *)
SourceLine(pos) == NonEmptyLines[pos + 1]

(* The text a field of a source line denotes as a string, if it does *)
FieldText(tok) ==
  IF tok.k = "str" THEN Ok(tok.s)
  ELSE IF tok.k = "id" /\ tok.name \in DOMAIN by_name
          /\ NamedVal(variables, by_name, tok.name).tag = "Str"
  THEN Ok(NamedVal(variables, by_name, tok.name).s)
  ELSE Fail(InvalidCast(Null, "str"))

(* The integer a field of a source line denotes, if it does *)
FieldInt(tok) ==
  IF tok.k = "num" THEN as_int(Num(tok.f))
  ELSE IF tok.k = "id" /\ tok.name \in DOMAIN by_name
  THEN as_int(NamedVal(variables, by_name, tok.name))
  ELSE Fail(InvalidCast(Null, "int"))

(* What `read dst S i` did in the step, for the code units of S *)
ReadLaw(units, i, dst, pos) ==
  IF i < 0
  THEN /\ run'.result = "Err"
       /\ run'.err = PosVmError(NegativeIndex(i, "string"), pos)
       /\ HandleVal(variables', dst) = HandleVal(variables, dst)
  ELSE IF i >= Len(units)
  THEN /\ run'.result = "Err"
       /\ run'.err = PosVmError(IndexTooHigh(i, Len(units), "string"), pos)
       /\ HandleVal(variables', dst) = HandleVal(variables, dst)
  ELSE /\ run'.result # "Err"
       /\ HandleVal(variables', dst) = NumI(units[i + 1])

(* The step is a cycle that executes a line `read dst S i` of the source
   with S a string and i an integer *)
ReadsString ==
  /\ IsCycleStep /\ last'.pc # NoPos
  /\ SourceLine(last'.pc)[1].name = "read"
  /\ IsOk(FieldText(SourceLine(last'.pc)[3]))
  /\ IsOk(FieldInt(SourceLine(last'.pc)[4]))

(* C19, as stated: read string-indexing law.  For a string S (a literal or
   the value of a variable) of n UTF-16 code units and an integer i, `read
   dst S i` sets dst to Num(code_units(S)[i]) when 0 <= i < n, fails
   IndexTooHigh(i, n, "string") when i >= n and NegativeIndex when i < 0,
   leaving dst unchanged. *)
C19_AsStated ==
  [][ReadsString =>
       ReadLaw(encode_utf16(FieldText(SourceLine(last'.pc)[3]).v),
               FieldInt(SourceLine(last'.pc)[4]).v,
               get_handle(by_name, SourceLine(last'.pc)[2].name),
               last'.pc)]_vars

(* C19, as the root crate behaves: every `read dst S i` on a string S fails
   with the cast of S to a number, whatever i is, and leaves dst unchanged:
   the parser took the index from the field of S. *)
C19_Observed ==
  [][ReadsString =>
       /\ last'.operands[3].tag = "Str"
       /\ last'.operands[3].s = last'.operands[2].s
       /\ run'.result = "Err"
       /\ run'.err.pos = last'.pc
       /\ run'.err.err.kind = "InvalidCast"
       /\ run'.err.err.to = "num"
       /\ HandleVal(variables', get_handle(by_name, SourceLine(last'.pc)[2].name))
            = HandleVal(variables, get_handle(by_name, SourceLine(last'.pc)[2].name))]_vars

(* `read v "ab" 1` failed on the cast of its string *)
C19_Witness ==
  /\ run.result = "Err" /\ run.err.err.kind = "InvalidCast" /\ run.err.err.to = "num"
  /\ last.ins.op = "read" /\ last.operands[2].tag = "Str"
  /\ last.operands[2].s = <<97, 98>>

-----------------------------------------------------------------------------
(* Properties of sensor, checked under SpecSense *)

(* The step is a cycle that executes a sensor of a property of a memory
   cell *)
SensesMemory ==
  /\ IsCycleStep /\ last'.pc # NoPos /\ last'.ins.op = "sensor"
  /\ last'.operands[2].tag = "Building"
  /\ BuildingIndex(buildings, last'.operands[2].name) # 0
  /\ buildings[BuildingIndex(buildings, last'.operands[2].name)].kind = "Memory"
  /\ last'.operands[3] \in {Property("memoryCapacity"), Property("size")}

(* C20, as stated: memory cell sensing.  For a memory cell mem of capacity
   n, `sensor dst mem @memoryCapacity` and `sensor dst mem @size` both
   succeed and set dst to Num(n). *)
C20_AsStated ==
  [][SensesMemory =>
       /\ run'.result # "Err"
       /\ HandleVal(variables', last'.ins.args[1].h)
            = NumI(Len(buildings[BuildingIndex(buildings, last'.operands[2].name)].data))]_vars

(* C20, as the code behaves: the memory building has no sense of its own,
   so both sensors fail with InvalidBuildingType("sense from", name) at the
   position of the instruction and leave dst as it was. *)
C20_Observed ==
  [][SensesMemory =>
       /\ run'.result = "Err"
       /\ run'.err = PosVmError(InvalidBuildingType("sense from", last'.operands[2].name),
                                 last'.pc)
       /\ HandleVal(variables', last'.ins.args[1].h)
            = HandleVal(variables, last'.ins.args[1].h)]_vars

(* `sensor v c1 @memoryCapacity` failed after 5 was stored in v *)
C20_Witness ==
  /\ run.result = "Err"
  /\ run.err = PosVmError(InvalidBuildingType("sense from", "c1"), 1)
  /\ last.ins.op = "sensor" /\ last.operands[3] = Property("memoryCapacity")
  /\ NamedVal(variables, by_name, "v") = NumI(5)

-----------------------------------------------------------------------------
(* Properties of the lexer, checked under SpecLex *)

(* The fields split_line returned, as texts *)
Fields == [j \in DOMAIN lex.segments |->
             Slice(lex.line, lex.segments[j].from, lex.segments[j].to)]

(* The character at position k of the line is inside double quotes: an odd
   number of quotes precedes it *)
InQuotes(line, k) ==
  Cardinality({j \in 1 .. (k - 1) : line[j] = 34}) % 2 = 1

(* The positions of the spaces of the line that are outside double quotes *)
Separators(line) == {k \in DOMAIN line : line[k] = 32 /\ ~InQuotes(line, k)}

(* The positions (1-based) of the characters of a segment *)
Covered(line, seg) ==
  {k \in DOMAIN line : seg.from <= ByteOffset(line, k) /\ ByteOffset(line, k) < seg.to}

(* C21, as stated: the lexer.  split returns, in order, the fields of the
   line separated by ASCII spaces outside double quotes: every field is a
   non-empty contiguous piece of the line with no space outside quotes,
   fields do not overlap, every character that is not a separating space is
   in a field (quoted spaces and the quotes included), and the empty line
   yields no field. *)
C21_AsStated ==
  lex.done =>
    /\ \A j \in DOMAIN lex.segments :
          /\ Covered(lex.line, lex.segments[j]) # {}
          /\ Covered(lex.line, lex.segments[j]) \cap Separators(lex.line) = {}
    /\ \A j \in DOMAIN lex.segments : \A h \in DOMAIN lex.segments :
          j < h => lex.segments[j].to <= lex.segments[h].from
    /\ \A k \in DOMAIN lex.line :
          k \notin Separators(lex.line) =>
            \E j \in DOMAIN lex.segments : k \in Covered(lex.line, lex.segments[j])
    /\ lex.line = <<>> => lex.segments = <<>>

(* Every separating space of the line stands alone between two characters
   that are not separating spaces *)
SingleSpaced(line) ==
  \A k \in Separators(line) :
    /\ 1 < k /\ k < Len(line)
    /\ (k - 1) \notin Separators(line)
    /\ (k + 1) \notin Separators(line)

(* C21, as the code behaves: on a line whose separating spaces are single
   and neither leading nor trailing the fields are as stated; a leading
   space gives an empty first field, and after a repeated or trailing space
   a field is returned again from where the previous field started. *)
C21_Observed ==
  lex.done =>
    /\ SingleSpaced(lex.line) => C21_AsStated
    /\ (lex.line # <<>> /\ lex.line[1] = 32) => Fields[1] = <<>>
    /\ (Len(lex.line) >= 2 /\ lex.line[Len(lex.line)] = 32 /\ lex.line[1] # 32
          /\ ~InQuotes(lex.line, Len(lex.line))) =>
          /\ Len(Fields) >= 2
          /\ Fields[Len(Fields)][Len(Fields[Len(Fields)])] = 32

(* the line `a ` gave the two fields `a` and `a ` *)
C21_Witness ==
  /\ lex.done /\ lex.line = <<97, 32>>
  /\ Fields = << <<97>>, <<97, 32>> >>

-----------------------------------------------------------------------------
(* Properties of the numbering of instructions, checked under SpecNum *)

(* The opcode field of the pos-th line that has a field (0-based) *)
OpcodeAt(pos) == SourceLine(pos)[1].name

(* C22: instruction numbering.  The parsed program has exactly one
   instruction per line of the source that has a field, in the order of the
   source, and a line without fields takes no index: the cycle at @counter
   = k, a jump to k included, executes the instruction of the k-th line with
   a field (0-based), and an error at position k is that of the k-th such
   line. *)
C22_Numbering ==
  /\ [](/\ Len(code) = Len(NonEmptyLines)
        /\ \A k \in DOMAIN code : code[k].op = NonEmptyLines[k][1].name
        /\ last.ran /\ last.pc # NoPos =>
              /\ last.pc < Len(NonEmptyLines)
              /\ last.ins.op = OpcodeAt(last.pc)
        /\ run.result = "Err" /\ run.err.pos # NoPos =>
              /\ run.err.pos < Len(NonEmptyLines)
              /\ OpcodeAt(run.err.pos) = "write")
  /\ [][IsCycleStep /\ LastOk /\ last.ins.op = "jump" /\ Len(NonEmptyLines) > 1 =>
          /\ last'.pc = 1
          /\ last'.ins.op = OpcodeAt(1)]_vars

(* a jump to 1 over a line without fields ran the third line of the source,
   which failed at position 1 *)
C22_Witness ==
  /\ Len(options.code) = 3 /\ options.code[2] = <<>>
  /\ options.code[1] # <<>> /\ options.code[3] # <<>>
  /\ options.code[1][1].name = "jump" /\ options.code[3][1].name = "write"
  /\ run.result = "Err" /\ run.err.pos = 1 /\ last.ins.op = "write"

-----------------------------------------------------------------------------
(* Properties of the comparisons, checked under SpecBool *)

BooleanOperators ==
  {"lessThan", "lessThanEq", "greaterThan", "greaterThanEq", "equal",
   "strictEqual", "notEqual", "not", "land"}

(* The latest cycle executed an op of a comparison or logical operator that
   succeeded *)
LastBoolean ==
  LastOk /\ last.ins.op = "op" /\ last.ins.args[1].s \in BooleanOperators

(* C23: boolean normalisation.  After a successful op of lessThan,
   lessThanEq, greaterThan, greaterThanEq, equal, strictEqual, notEqual, not
   or land the destination holds exactly Num(0) or Num(1). *)
C23_BooleanNormalisation ==
  LastBoolean =>
    /\ last.wrote = last.ins.args[2].h
    /\ HandleVal(variables, last.wrote) \in {NumI(0), NumI(1)}

(* `not` of 1.5 wrote 0 *)
C23_Witness ==
  /\ LastBoolean /\ last.ins.args[1].s = "not"
  /\ last.operands[3] = Num(F(3))
  /\ HandleVal(variables, last.wrote) = NumI(0)

-----------------------------------------------------------------------------
(* Properties of stop, checked under Spec *)

(* C25: stop halts the run.  The cycle that executes a stop makes run return
   Halt, and changes nothing except @counter, which holds the index of the
   stop plus 1; after the return no instruction executes and the machine
   stays as it is until run is called again. *)
C25_StopHalts ==
  /\ [][IsCycleStep /\ last'.pc # NoPos /\ last'.ins.op = "stop" =>
          /\ run'.state = "returned" /\ run'.result = "Halt"
          /\ variables' = [variables EXCEPT
                              ![pc_handle + 1].value = NumI(last'.pc + 1)]
          /\ UNCHANGED <<by_name, utf_16, print_buffer, buildings>>]_vars
  /\ [][run.state = "returned" /\ run.result = "Halt" =>
          /\ MachineUnchanged /\ last' = last
          /\ run'.i = 0]_vars

(* a run returned Halt on a stop at index 1, in its second cycle *)
C25_Witness ==
  /\ run.state = "returned" /\ run.result = "Halt" /\ run.i = 2
  /\ last.ins.op = "stop" /\ last.pc = 1 /\ CounterValue = NumI(2)

-----------------------------------------------------------------------------
(* Properties of the jump target, checked under SpecJump *)

(* The condition of the jump of the latest cycle held *)
JumpHeld ==
  \/ last.ins.args[2].s = "always"
  \/ /\ IsOk(JumpCond(Machine, last.ins.args[2].s, last.operands[3], last.operands[4]))
     /\ JumpCond(Machine, last.ins.args[2].s, last.operands[3], last.operands[4]).v

(* The latest cycle of the current run executed a jump whose condition held
   and whose target is no number *)
JumpToNoNumber ==
  /\ run.i > 0 /\ last.ran /\ last.pc # NoPos /\ last.ins.op = "jump"
  /\ JumpHeld /\ last.operands[1].tag # "Num"

(* C26 as stated: a taken jump whose target is no number fails with
   InvalidCast to 'num' at the index of the jump, and @counter holds that
   index plus 1. *)
C26_AsStated ==
  JumpToNoNumber =>
    /\ run.state = "returned" /\ run.result = "Err"
    /\ run.err = PosVmError(InvalidCast(last.operands[1], "num"), last.pc)
    /\ CounterValue = NumI(last.pc + 1)

(* C26, as the code behaves: the jump succeeds and @counter holds the
   target as it is; a following cycle of the run fails on the fetch with
   the cast error wrapped as PcResError and no position. *)
C26_Observed ==
  /\ [](JumpToNoNumber =>
          /\ last.err.err.kind = "Ok" /\ run.result # "Err"
          /\ CounterValue = last.operands[1])
  /\ [][JumpToNoNumber /\ IsCycleStep =>
          /\ run'.result = "Err"
          /\ run'.err = PosVmError(PcResError(InvalidCast(CounterValue, "num")), NoPos)]_vars

(* a run of one cycle returned InsLimit with the string in @counter *)
C26_Witness ==
  /\ JumpToNoNumber /\ run.result = "InsLimit"
  /\ CounterValue.tag = "Str" /\ CounterValue.s = <<120>>

-----------------------------------------------------------------------------
(* Properties of the equality operators, checked under SpecEq *)

EqualityOperators == {"equal", "strictEqual", "notEqual"}

(* The latest cycle succeeded on an op or a jump of an equality operator *)
LastEquality ==
  /\ LastOk
  /\ \/ last.ins.op = "op" /\ last.ins.args[1].s \in EqualityOperators
     \/ last.ins.op = "jump" /\ last.ins.args[2].s \in EqualityOperators

(* What op o computes on the operands of the latest cycle *)
OpOnLast(o) ==
  OpValue(Machine, o, Arg("Value", None, last.operands[3], ""),
          Arg("Value", None, last.operands[4], "")).v

(* Whether a jump on o is taken on the operands of the latest cycle *)
JumpOnLast(o) == JumpCond(Machine, o, last.operands[3], last.operands[4]).v

(* C27: equality operators.  On any two operand values op equal and op
   strictEqual give the same result and op notEqual gives 1 minus it;
   values of different variants are unequal (null and 0, "1" and 1);
   devices are equal exactly when their names are; a jump on equal,
   strictEqual or notEqual is taken exactly when the op of that name gives
   1. *)
C27_EqualityOperators ==
  LastEquality =>
    /\ OpOnLast("equal") = OpOnLast("strictEqual")
    /\ \/ OpOnLast("equal") = NumI(1) /\ OpOnLast("notEqual") = NumI(0)
       \/ OpOnLast("equal") = NumI(0) /\ OpOnLast("notEqual") = NumI(1)
    /\ last.operands[3].tag # last.operands[4].tag => OpOnLast("equal") = NumI(0)
    /\ last.operands[3].tag = "Building" /\ last.operands[4].tag = "Building" =>
          (OpOnLast("equal") = NumI(1) <=> last.operands[3].name = last.operands[4].name)
    /\ \A o \in EqualityOperators : JumpOnLast(o) <=> OpOnLast(o) = NumI(1)
    /\ last.ins.op = "op" =>
          HandleVal(variables, last.wrote) = OpOnLast(last.ins.args[1].s)
    /\ last.ins.op = "jump" =>
          (last.wrote = pc_handle <=> OpOnLast(last.ins.args[2].s) = NumI(1))

(* op equal on an unset variable and 0 wrote 0 *)
C27_Witness ==
  /\ LastEquality /\ last.ins.op = "op" /\ last.ins.args[1].s = "equal"
  /\ last.operands[3] = Null /\ last.operands[4] = NumI(0)
  /\ HandleVal(variables, last.wrote) = NumI(0)

-----------------------------------------------------------------------------
(* Properties of @this as a device, checked under SpecMirror.  In a step
   that is a cycle the unprimed variables are the machine before the cycle
   and last' reports the cycle. *)

(* The store when the instruction of the cycle executes: @counter advanced *)
Advanced == [variables EXCEPT ![pc_handle + 1].value = NumI(last'.pc + 1)]

(* The cycle executes instruction opcode on @this *)
CycleOnThis(opcode) ==
  /\ IsCycleStep /\ last'.pc # NoPos /\ last'.ins.op = opcode
  /\ last'.operands[2] = Building("@this")

(* The handle of the variable the name operand of the cycle spells *)
NamedHandle == get_handle_text(by_name, last'.operands[3].s)

(* `set x v` for the variable at handle h, on the machine of the cycle *)
SetOnAdvanced(h, v) ==
  ExecSet([Machine EXCEPT !.variables = Advanced],
          [op |-> "set", args |-> <<Arg("out", h, Null, ""), Arg("Value", None, v, "")>>])

(* The cycle failed with err at its instruction and left the store alone *)
RefusedWith(err) ==
  /\ last'.err = PosVmError(err, last'.pc)
  /\ variables' = Advanced

(* What a read or write on @this does on a name that is no string or is not
   in the store *)
BadNameRefused ==
  IF last'.operands[3].tag # "Str"
  THEN RefusedWith(InvalidCast(last'.operands[3], "str"))
  ELSE RefusedWith(VariableNotFound(last'.operands[3].s))

(* C28: @this mirrors the variable store.  `read dst @this "x"` on a name
   of the store sets dst to the value of x and changes nothing else;
   `write v @this "x"` leaves the store and the error that `set x v` leaves,
   and when x is @counter the next cycle executes the instruction at v; a
   name that is not in the store fails with VariableNotFound(name) and a
   name that is no string with InvalidCast, the store staying as it is. *)
C28_ThisMirrorsStore ==
  /\ [][CycleOnThis("read") =>
          IF last'.operands[3].tag = "Str" /\ NamedHandle # None
          THEN /\ last'.err.err.kind = "Ok"
               /\ variables' = [Advanced EXCEPT ![last'.ins.args[1].h + 1].value =
                                   HandleVal(Advanced, NamedHandle)]
          ELSE BadNameRefused]_vars
  /\ [][CycleOnThis("write") =>
          IF last'.operands[3].tag = "Str" /\ NamedHandle # None
          THEN /\ last'.err.err = SetOnAdvanced(NamedHandle, last'.operands[1]).err
               /\ variables' = SetOnAdvanced(NamedHandle, last'.operands[1]).M.variables
          ELSE BadNameRefused]_vars
  /\ [][/\ IsCycleStep /\ LastOk /\ last.ins.op = "write"
         /\ last.operands[2] = Building("@this")
         /\ last.operands[3].tag = "Str"
         /\ get_handle_text(by_name, last.operands[3].s) = pc_handle
         => last.operands[1] = NumI(last'.pc)]_vars

(* a write of 0 into @this at "@counter" in the second line sent the run
   back to the first line *)
C28_Witness ==
  /\ run.i = 3 /\ last.pc = 0 /\ last.before = NumI(0)
  /\ Len(code) = 2 /\ code[2].op = "write"
  /\ code[2].args[3].v.tag = "Str" /\ code[2].args[3].v.s = Spelling["@counter"]

-----------------------------------------------------------------------------
(* Properties of the integer division, checked under SpecIdiv.  As for
   @this, in a step that is a cycle last' reports the cycle and the
   unprimed variables are the machine before it. *)

(* The cycle executes op idiv on two numbers *)
CycleIdiv ==
  /\ IsCycleStep /\ last'.pc # NoPos /\ last'.ins.op = "op"
  /\ last'.ins.args[1].s = "idiv"
  /\ last'.operands[3].tag = "Num" /\ last'.operands[4].tag = "Num"

(* The operands of the cycle as signed 64-bit integers *)
IdivA == AsI64(last'.operands[3].f)

IdivB == AsI64(last'.operands[4].f)

(* The value v is the quotient of the modelled integers a by b, truncated
   toward zero *)
IsQuotient(v, a, b) ==
  /\ v.tag = "Num" /\ v.f.cls = "fin" /\ v.f.n % 2 = 0
  /\ Abs(v.f.n \div 2) * Abs(b) <= Abs(a)
  /\ Abs(a) < (Abs(v.f.n \div 2) + 1) * Abs(b)
  /\ v.f.n # 0 => Sign(v.f.n) = Sign(a) * Sign(b)

(* What op idiv does when it fails with DivisionByZero on the condition
   zero, and otherwise writes the quotient *)
IdivLaw(zero) ==
  IF zero
  THEN RefusedWith(DivisionByZero)
  ELSE /\ last'.err.err.kind = "Ok"
       /\ last'.wrote = last'.ins.args[2].h
       /\ (IdivA.sat = 0 /\ IdivB.sat = 0) =>
             IsQuotient(HandleVal(variables', last'.wrote), IdivA.k, IdivB.k)
       /\ (IdivA.sat = 0 /\ IdivB.sat # 0) =>
             HandleVal(variables', last'.wrote) = NumI(0)

(* C29 as stated: op idiv truncates both operands to signed 64-bit integers
   and writes their quotient truncated toward zero; it fails with
   DivisionByZero exactly when the truncated b is 0, and then dst is
   unchanged. *)
C29_AsStated == [][CycleIdiv => IdivLaw(IdivB = I64(0))]_vars

(* C29, as the code behaves: the same, and DivisionByZero also for the
   quotient of the least 64-bit integer by -1, which overflows. *)
C29_Observed ==
  [][CycleIdiv => IdivLaw(IdivB = I64(0) \/ (IdivA = I64_MIN /\ IdivB = I64(-1)))]_vars

(* op idiv on the negative infinity and -1 failed with DivisionByZero and
   left the infinity in its destination *)
C29_Witness ==
  /\ last.ran /\ last.pc = 1 /\ last.ins.op = "op" /\ last.ins.args[1].s = "idiv"
  /\ last.operands[3] = Num(Inf(-1)) /\ last.operands[4] = NumI(-1)
  /\ last.err = PosVmError(DivisionByZero, 1)
  /\ HandleVal(variables, last.ins.args[2].h) = Num(Inf(-1))

-----------------------------------------------------------------------------
(* Properties of the capabilities of the devices, checked under SpecCap.
   In a step that is a cycle last' reports the cycle and the unprimed
   variables are the machine before it. *)

(* The kind of the device of that name: the declared kind, or Processor *)
DeviceKind(name) ==
  IF BuildingIndex(buildings, name) = 0 THEN "Processor"
  ELSE buildings[BuildingIndex(buildings, name)].kind

(* The operand of an instruction that names its device *)
DeviceOperand(opcode) == IF opcode = "printflush" THEN 1 ELSE 2

(* The action by which the error names the capability *)
ActionName(opcode) ==
  CASE opcode = "read" -> "read from"
    [] opcode = "write" -> "write into"
    [] opcode = "sensor" -> "sense from"
    [] opcode = "printflush" -> "print flush into"

(* The capabilities the claim lists as unsupported *)
Unsupported ==
  { <<"read", "Message">>, <<"write", "Message">>, <<"sensor", "Message">>,
    <<"printflush", "Processor">>, <<"sensor", "Processor">>,
    <<"printflush", "Memory">> }

(* The cycle executes an instruction of the four on a device *)
CycleOnDevice ==
  /\ IsCycleStep /\ last'.pc # NoPos
  /\ last'.ins.op \in {"read", "write", "sensor", "printflush"}
  /\ last'.operands[DeviceOperand(last'.ins.op)].tag = "Building"

(* The name of the device of the cycle *)
CycleDevice == last'.operands[DeviceOperand(last'.ins.op)].name

(* C30: unsupported device capabilities.  read, write and sensor on a
   message display, printflush and sensor on @this and printflush on a
   memory cell fail with InvalidBuildingType(action, name of the device) at
   the index of the instruction, and no device and no variable is changed;
   a successful printflush into a message display leaves the display with
   the text taken from the print buffer in place of its previous text. *)
C30_UnsupportedCapabilities ==
  /\ [][CycleOnDevice /\ <<last'.ins.op, DeviceKind(CycleDevice)>> \in Unsupported =>
          /\ RefusedWith(InvalidBuildingType(ActionName(last'.ins.op), CycleDevice))
          /\ buildings' = buildings]_vars
  /\ [][/\ CycleOnDevice /\ last'.ins.op = "printflush"
         /\ DeviceKind(CycleDevice) = "Message"
         => /\ last'.err.err.kind = "Ok"
            /\ buildings' = [buildings EXCEPT
                   ![BuildingIndex(buildings, CycleDevice)].text = printed]]_vars

(* a second printflush of the text `a` into the display that showed `a`
   left it showing `a` *)
C30_Witness ==
  /\ LastOk /\ last.ins.op = "printflush" /\ last.operands[1] = Building("m1")
  /\ last.devices[1].text = <<97>>
  /\ last.printed = <<97>>
  /\ buildings[1].text = <<97>>

-----------------------------------------------------------------------------
(* Properties of the write into a memory cell, checked under SpecWrite.  In
   a step that is a cycle last' reports the cycle and the unprimed variables
   are the machine before it. *)

(* The cycle executes a write into a memory building *)
CycleMemWrite ==
  /\ IsCycleStep /\ last'.pc # NoPos /\ last'.ins.op = "write"
  /\ last'.operands[2].tag = "Building"
  /\ DeviceKind(last'.operands[2].name) = "Memory"

(* The building, the index operand, the value operand of the write *)
WriteDevice == BuildingIndex(buildings, last'.operands[2].name)

WriteIndex == last'.operands[3]

WriteValue == last'.operands[1]

(* The error the write is to fail with on index i and value v into n cells,
   NoErr when it is to succeed *)
WriteError(i, v, n) ==
  IF i.tag # "Num" THEN InvalidCast(i, "num")
  ELSE IF i.f.cls # "fin" \/ i.f.n % 2 # 0 THEN InvalidCast(i, "int")
  ELSE IF i.f.n < 0 THEN NegativeIndex(i.f.n \div 2, "memory cell")
  ELSE IF i.f.n \div 2 >= n THEN IndexTooHigh(i.f.n \div 2, n, "memory cell")
  ELSE IF v.tag # "Num" THEN InvalidCast(v, "num")
  ELSE NoErr

(* C31: memory write validation and frame.  A write into a memory cell of
   capacity n fails with NegativeIndex for an index below 0, IndexTooHigh(i,
   n, 'memory cell') for an index i >= n, InvalidCast for an index that is
   no integer and, the index being good, for a value that is no number; a
   failing write changes no cell, device or variable; a successful one
   changes cell i alone, and no other device and no variable but @counter. *)
C31_MemoryWrite ==
  [][CycleMemWrite =>
       IF WriteError(WriteIndex, WriteValue, Len(buildings[WriteDevice].data)) # NoErr
       THEN /\ RefusedWith(WriteError(WriteIndex, WriteValue,
                                       Len(buildings[WriteDevice].data)))
            /\ buildings' = buildings
       ELSE /\ last'.err.err.kind = "Ok"
            /\ variables' = Advanced
            /\ buildings' = [buildings EXCEPT
                   ![WriteDevice].data[(WriteIndex.f.n \div 2) + 1] = WriteValue.f]]_vars

(* a write at -1 failed after a write of 7 into cell 0, which still holds 7 *)
C31_Witness ==
  /\ last.ran /\ last.pc = 1 /\ last.ins.op = "write"
  /\ last.operands[3] = NumI(-1)
  /\ last.err = PosVmError(NegativeIndex(-1, "memory cell"), 1)
  /\ buildings[2].data[1] = F(14)

-----------------------------------------------------------------------------
(* Properties of the code units of strings, checked under SpecLazy *)

(* The string values of the literals of the program, and those the store
   holds *)
LiteralStrings ==
  UNION {{code[k].args[a].v : a \in DOMAIN code[k].args} : k \in DOMAIN code} \cap
  {Str(r, t) : r \in DOMAIN utf_16, t \in {<<97, 98>>, <<97, 119070>>}}

HeldStrings ==
  {variables[h].value : h \in DOMAIN variables} \cap
  {Str(r, t) : r \in DOMAIN utf_16, t \in {<<97, 98>>, <<97, 119070>>}}

(* The text a sequence of UTF-16 code units decodes to: a high surrogate
   and the unit after it give one character above the BMP *)
RECURSIVE decode_utf16(_)
decode_utf16(u) ==
  IF u = <<>> THEN <<>>
  ELSE IF u[1] >= 55296 /\ u[1] <= 56319 /\ Len(u) >= 2
  THEN <<65536 + (u[1] - 55296) * 1024 + (u[2] - 56320)>> \o decode_utf16(Tail(Tail(u)))
  ELSE <<u[1]>> \o decode_utf16(Tail(u))

(* The cycle of the step needs the code units of its string operand *)
NeedsUnits ==
  /\ IsCycleStep /\ last'.pc # NoPos /\ last'.ins.op \in {"read", "sensor"}
  /\ last'.operands[2].tag = "Str"

(* C32: lazy UTF-16 memoisation.  The code units of a string are absent
   until a read or a sensor of its size needs them, are then computed and
   kept, are the UTF-16 encoding of the text of the string, and never change
   or disappear; a read of a string whose units are present takes its result
   from them and leaves them as they are; the text of a string never
   changes. *)
C32_LazyUtf16 ==
  /\ [](/\ runs = 0 => \A r \in DOMAIN utf_16 : ~utf_16[r].init
        /\ HeldStrings \subseteq LiteralStrings
        /\ \A v \in LiteralStrings :
              /\ \A w \in LiteralStrings : w.ref = v.ref => w = v
              /\ utf_16[v.ref].init =>
                    /\ decode_utf16(utf_16[v.ref].units) = v.s
                    /\ \A j \in DOMAIN utf_16[v.ref].units :
                          utf_16[v.ref].units[j] \in 0 .. 65535)
  /\ [][/\ DOMAIN utf_16' = DOMAIN utf_16
        /\ \A r \in DOMAIN utf_16 :
              /\ utf_16[r].init => utf_16'[r] = utf_16[r]
              /\ (utf_16'[r].init /\ ~utf_16[r].init) =>
                    NeedsUnits /\ last'.operands[2].ref = r]_vars
  /\ [][NeedsUnits =>
          /\ utf_16'[last'.operands[2].ref].init
          /\ (last'.ins.op = "read" /\ last'.err.err.kind = "Ok") =>
                HandleVal(variables', last'.ins.args[1].h) =
                  NumI(utf_16'[last'.operands[2].ref].units[
                         as_int(last'.operands[3]).v + 1])]_vars

(* in a second run a read of the string in x found its three code units
   present and returned the high surrogate of its second character *)
C32_Witness ==
  /\ LastOk /\ last.ins.op = "read" /\ runs = 2 /\ run.i = 2
  /\ last.operands[2] \in HeldStrings
  /\ utf_16[last.operands[2].ref] = [init |-> TRUE, units |-> <<97, 55348, 56606>>]
  /\ HandleVal(variables, last.ins.args[1].h) = NumI(55348)

-----------------------------------------------------------------------------
(* Properties of the comparator of a jump, checked under SpecCmp.  In a step
   that is a cycle last' reports the cycle and the unprimed variables are
   the machine before it. *)

Comparators ==
  {"always", "equal", "strictEqual", "notEqual", "lessThan", "lessThanEq",
   "greaterThan", "greaterThanEq"}

(* The cycle executes a jump on a comparator that is none of the eight *)
CycleUnknownJump ==
  /\ IsCycleStep /\ last'.pc # NoPos /\ last'.ins.op = "jump"
  /\ last'.ins.args[2].s \notin Comparators

(* The machine was constructed, and a run fails only on such a jump *)
UnknownJumpAccepted ==
  /\ new_result = NoErr
  /\ run.result = "Err" =>
        /\ last.pc # NoPos /\ last.ins.op = "jump"
        /\ last.ins.args[2].s \notin Comparators

(* C33 as stated: a jump on an unknown comparator fails with
   InvalidOperation(cmp) at its index and leaves @counter at that index plus
   1; the comparator is not checked at construction, and a run that does
   not reach the jump does not fail on it. *)
C33_AsStated ==
  /\ []UnknownJumpAccepted
  /\ [][CycleUnknownJump => RefusedWith(InvalidOperation(last'.ins.args[2].s))]_vars

(* C33, as the code behaves: the operands are cast to numbers before the
   comparator is looked at, so the jump fails with InvalidCast to 'num' of
   the first operand that is no number, and with InvalidOperation(cmp) when
   both are numbers. *)
C33_Observed ==
  /\ []UnknownJumpAccepted
  /\ [][CycleUnknownJump =>
          RefusedWith(IF last'.operands[3].tag # "Num"
                      THEN InvalidCast(last'.operands[3], "num")
                      ELSE IF last'.operands[4].tag # "Num"
                      THEN InvalidCast(last'.operands[4], "num")
                      ELSE InvalidOperation(last'.ins.args[2].s))]_vars

(* a jump on `foo` with an unset variable as first operand failed with the
   cast of null *)
C33_Witness ==
  /\ last.ran /\ last.pc # NoPos /\ last.ins.op = "jump" /\ last.ins.args[2].s = "foo"
  /\ last.operands[3] = Null
  /\ run.err = PosVmError(InvalidCast(Null, "num"), last.pc)
  /\ CounterValue = NumI(last.pc + 1)

-----------------------------------------------------------------------------
(* Properties of printchar, checked under SpecChar *)

(* The cycle executes a printchar *)
CyclePrintChar == IsCycleStep /\ last'.pc # NoPos /\ last'.ins.op = "printchar"

(* The operand of the printchar, and the code unit of an integer operand *)
CharOperand == last'.operands[1]

CodeUnit == (CharOperand.f.n \div 2) % 65536

IsSurrogate(u) == u >= 55296 /\ u <= 57343

(* C34: printchar.  An integer operand is reduced modulo 2^16 to a code unit
   (an operand in 0..65535 is its own code unit); a code unit that is no
   surrogate is appended to the print buffer as one character, a surrogate
   fails InvalidCharacter(unit), an operand that is no number or no integer
   fails InvalidCast, and a failing printchar leaves the buffer as it was. *)
C34_PrintChar ==
  [][CyclePrintChar =>
       IF CharOperand.tag # "Num"
       THEN RefusedWith(InvalidCast(CharOperand, "num")) /\ print_buffer' = print_buffer
       ELSE IF CharOperand.f.cls # "fin" \/ CharOperand.f.n % 2 # 0
       THEN RefusedWith(InvalidCast(CharOperand, "int")) /\ print_buffer' = print_buffer
       ELSE IF IsSurrogate(CodeUnit)
       THEN RefusedWith(InvalidCharacter(CodeUnit)) /\ print_buffer' = print_buffer
       ELSE /\ last'.err.err.kind = "Ok"
            /\ variables' = Advanced
            /\ print_buffer' = print_buffer \o <<CodeUnit>>
            /\ CharOperand.f.n \div 2 \in 0..65535
                 => print_buffer' = print_buffer \o <<CharOperand.f.n \div 2>>]_vars

(* printchar 65601 appended 'A' after printchar 65 had *)
C34_Witness ==
  /\ LastOk /\ last.pc = 1 /\ last.ins.op = "printchar"
  /\ last.operands[1] = NumI(65601)
  /\ print_buffer = <<65, 65>>

-----------------------------------------------------------------------------
(* Properties of the wrap cycle, checked under SpecWrap *)

(* The program is straight: prints, code units and assignments to variables
   other than @counter *)
StraightLine ==
  \A k \in DOMAIN code :
    \/ code[k].op \in {"print", "printchar"}
    \/ code[k].op = "set" /\ code[k].args[1].h # pc_handle

(* What an instruction of a straight program appends to the print buffer *)
LineText(ins) ==
  CASE ins.op = "print" -> to_string(ins.args[1].v)
    [] ins.op = "printchar" -> <<(ins.args[1].v.f.n \div 2) % 65536>>
    [] OTHER -> <<>>

(* The text of the first k instructions *)
RECURSIVE TextUpTo(_)
TextUpTo(k) == IF k = 0 THEN <<>> ELSE TextUpTo(k - 1) \o LineText(code[k])

(* The first run of a straight program, under end_on_wrap and a limit above
   the program's length *)
WrapRun ==
  /\ runs = 1 /\ Len(code) >= 1 /\ StraightLine
  /\ run.end_on_wrap /\ run.limit > Len(code)

(* C35: the wrap cycle executes an instruction.  The first run of a straight
   program of n instructions under end_on_wrap and a limit above n executes
   the instructions 0, .., n - 1 and then, in the cycle that finds the wrap,
   instruction 0 once more; it returns PcWrap after exactly n + 1 cycles,
   with the output of instruction 0 twice in the print buffer and @counter
   holding 1. *)
C35_WrapCycle ==
  /\ [](WrapRun =>
          IF run.state = "returned"
          THEN /\ run.result = "PcWrap" /\ run.i = Len(code) + 1
               /\ LastOk /\ last.pc = 0 /\ last.pc_wrap /\ last.ins = code[1]
               /\ CounterValue = NumI(1)
               /\ print_buffer = TextUpTo(Len(code)) \o LineText(code[1])
          ELSE /\ run.i <= Len(code)
               /\ print_buffer = TextUpTo(run.i))
  /\ [][WrapRun /\ IsCycleStep =>
          /\ last'.pc = (IF run.i < Len(code) THEN run.i ELSE 0)
          /\ last'.pc_wrap = (run.i = Len(code))
          /\ last'.ins = code[last'.pc + 1]
          /\ last'.err.err.kind = "Ok"
          /\ print_buffer' = print_buffer \o LineText(code[last'.pc + 1])]_vars

(* the one-line program print "a" returned PcWrap after two cycles with "aa"
   in the print buffer *)
C35_Witness ==
  /\ runs = 1 /\ Len(code) = 1 /\ code[1].op = "print"
  /\ run.state = "returned" /\ run.result = "PcWrap" /\ run.end_on_wrap
  /\ run.i = 2
  /\ print_buffer = <<97, 97>>
  /\ CounterValue = NumI(1)

-----------------------------------------------------------------------------
(* Properties of `end`, checked under Spec *)

(* The literal an argument holds is an index of the program *)
InRangeLiteral(arg) ==
  /\ arg.k = "Value" /\ arg.v.tag = "Num"
  /\ arg.v.f.cls = "fin" /\ arg.v.f.n % 2 = 0
  /\ arg.v.f.n \div 2 \in 0..(Len(code) - 1)

(* No instruction sends @counter beyond the program: the targets of the
   jumps and of the assignments to @counter are indices of the program, and
   the last instruction is an end, a stop or an unconditional jump *)
NeverRunsOff ==
  /\ Len(code) >= 1
  /\ \A k \in DOMAIN code :
        /\ code[k].op = "jump" => InRangeLiteral(code[k].args[1])
        /\ code[k].op = "set" /\ code[k].args[1].h = pc_handle
             => InRangeLiteral(code[k].args[2])
  /\ \/ code[Len(code)].op \in {"end", "stop"}
     \/ code[Len(code)].op = "jump" /\ code[Len(code)].args[2].s = "always"

(* C36: `end` is not a wrap.  The cycle after a successful `end` executes
   instruction 0 with pc_wrap unset; the first run of a program that no
   instruction leads beyond its last one never returns PcWrap, with
   end_on_wrap too: it returns Halt, InsLimit or an error, and none of its
   cycles is a wrap cycle. *)
C36_EndIsNoWrap ==
  /\ [][IsCycleStep /\ LastOk /\ last.ins.op = "end" =>
          /\ last'.pc = 0 /\ ~last'.pc_wrap /\ last'.ins = code[1]]_vars
  /\ [](runs = 1 /\ NeverRunsOff =>
          /\ run.result # "PcWrap"
          /\ run.state = "returned" => run.result \in {"Halt", "InsLimit", "Err"}
          /\ last.ran => ~last.pc_wrap)

(* under end_on_wrap the program `set x 1; end` went three times through
   its instructions' start and ran into the limit *)
C36_Witness ==
  /\ runs = 1 /\ Len(code) = 2 /\ code[1].op = "set" /\ code[2].op = "end"
  /\ run.end_on_wrap /\ run.limit = 3
  /\ run.state = "returned" /\ run.result = "InsLimit"
  /\ last.pc = 0 /\ ~last.pc_wrap /\ last.before = NumI(0)

-----------------------------------------------------------------------------
(* Properties of the instructions that fail, checked under SpecFail *)

(* The cycle dispatched an instruction whose execution failed *)
CycleFailed == IsCycleStep /\ last'.pc # NoPos /\ last'.err.err.kind # "Ok"

(* The failing instruction is a printflush whose operand is a building *)
FlushRefused ==
  last'.ins.op = "printflush" /\ last'.operands[1].tag = "Building"

(* C37: failed instructions have no effect.  When the execution of an
   instruction fails, the variables other than @counter, the devices and
   the print buffer are as they were before the cycle, also for a
   printflush into a device that accepts none. *)
C37_AsStated ==
  [][CycleFailed =>
       /\ variables' = Advanced
       /\ buildings' = buildings
       /\ print_buffer' = print_buffer]_vars

(* C37 as the code has it: a failing instruction leaves the variables other
   than @counter and the devices as they were; it leaves the print buffer
   as it was unless it is a printflush into a building, which has emptied
   the buffer before the building refuses it. *)
C37_Observed ==
  [][CycleFailed =>
       /\ variables' = Advanced
       /\ buildings' = buildings
       /\ print_buffer' = (IF FlushRefused THEN <<>> ELSE print_buffer)]_vars

(* the memory cell refused the flush of "a", and the print buffer is empty *)
C37_Witness ==
  /\ last.ran /\ last.pc = 1 /\ last.ins.op = "printflush"
  /\ last.operands[1] = Building("c1")
  /\ last.err = PosVmError(InvalidBuildingType("print flush into", "c1"), 1)
  /\ last.printed = <<97>>
  /\ print_buffer = <<>>
  /\ buildings = last.devices

-----------------------------------------------------------------------------
(* Properties of the dispatch, checked under SpecCounter.  In a step that is
   a cycle CounterValue is what @counter holds at the start of the cycle. *)

(* The cycle returned an error and executed nothing *)
CycleRefused ==
  /\ last'.pc = NoPos /\ last'.ins = NoIns
  /\ last'.err.err.kind # "Ok" /\ last'.err.pos = NoPos
  /\ MachineUnchanged

(* The cycle executed the instruction at index k of the program *)
CycleExecuted(k) ==
  /\ k \in 0..(Len(code) - 1)
  /\ last'.pc = k /\ last'.ins = code[k + 1]

(* C38: dispatch is always in range.  Whatever @counter holds at the start
   of a cycle, the cycle either returns an error without executing anything
   or executes code[k] for some 0 <= k < code.len: a value that is no
   number or no integer and a negative integer are refused, an integer
   below code.len dispatches itself and every integer from code.len on
   dispatches instruction 0. *)
C38_DispatchInRange ==
  [][IsCycleStep =>
       /\ CycleRefused \/ \E k \in 0..(Len(code) - 1) : CycleExecuted(k)
       /\ last'.before = CounterValue
       /\ IF CounterValue.tag # "Num"
          THEN CycleRefused
               /\ last'.err.err = PcResError(InvalidCast(CounterValue, "num"))
          ELSE IF CounterValue.f.cls # "fin" \/ CounterValue.f.n % 2 # 0
          THEN CycleRefused
               /\ last'.err.err = PcResError(InvalidCast(CounterValue, "int"))
          ELSE IF CounterValue.f.n < 0
          THEN CycleRefused
               /\ last'.err.err =
                    NegativeIndex(CounterValue.f.n \div 2, "program counter")
          ELSE IF CounterValue.f.n \div 2 < Len(code)
          THEN CycleExecuted(CounterValue.f.n \div 2) /\ ~last'.pc_wrap
          ELSE CycleExecuted(0) /\ last'.pc_wrap]_vars

(* a cycle that found 1000000 in @counter executed instruction 0 *)
C38_Witness ==
  /\ LastOk /\ last.before = NumI(1000000)
  /\ last.pc = 0 /\ last.pc_wrap /\ last.ins = code[1]

====
